---- MODULE Spec2Model ----
(***************************************************************************)
(* Model of the Obsidian-tooltips extension: the note index (notesCache),  *)
(* its refresh (updateNotesInformation -> loadVaultNotes ->                *)
(* scanVaultDirectory), the staleness check (isVaultModified), the         *)
(* persisted cache (saveCache / loadCache) and the command handlers that   *)
(* drive them (activate, update, connect, pick directories).               *)
(*                                                                         *)
(* JavaScript strings are sequences of one-character strings.  Every       *)
(* handler runs on one thread; an action is what a handler does from the   *)
(* completion of one awaited I/O operation to its next awaited I/O         *)
(* operation.                                                              *)
(***************************************************************************)
EXTENDS Naturals, Integers, Sequences, FiniteSets, TLC

\* ------------------------------------------------------------------ bounds
\* Largest value of the wall clock (Date.now()).
MaxClock == 2
\* Number of command invocations (update, connect, pick, accept) in a run.
MaxCmds == 2
\* Number of I/O operations that may fail in a run.
MaxFaults == 1
MaxInnerLines == 3
\* Number of lines of a note whose text is fetched.
MaxContentLines == 4
MaxInFlight == 2
\* Number of events (of the configuration, the active editor, a document) that
\* the host reports to the listeners.
MaxEvents == 2

\* ----------------------------------------------------------------- strings
Range(s) == {s[i] : i \in 1..Len(s)}

UpperChars == <<"A","B","C","D","E","F","G","H","I","J","K","L","M",
                "N","O","P","Q","R","S","T","U","V","W","X","Y","Z">>
LowerChars == <<"a","b","c","d","e","f","g","h","i","j","k","l","m",
                "n","o","p","q","r","s","t","u","v","w","x","y","z">>
DigitChars == <<"0","1","2","3","4","5","6","7","8","9">>
WhiteChars == {" ", "\t", "\n", "\r"}

\* String.prototype.toLowerCase, one character.
LowerChar(c) ==
    IF \E i \in 1..26 : UpperChars[i] = c
    THEN LowerChars[CHOOSE i \in 1..26 : UpperChars[i] = c]
    ELSE c

\* String.prototype.toLowerCase.
ToLowerCase(s) == [i \in 1..Len(s) |-> LowerChar(s[i])]

\* String.prototype.startsWith.
StartsWith(s, pre) ==
    /\ Len(pre) <= Len(s)
    /\ SubSeq(s, 1, Len(pre)) = pre

\* String.prototype.endsWith.
EndsWith(s, suf) ==
    /\ Len(suf) <= Len(s)
    /\ SubSeq(s, Len(s) - Len(suf) + 1, Len(s)) = suf

\* String.prototype.indexOf(pat, from): 0-based position, -1 when absent.
IndexOf(s, pat, from) ==
    LET hits == {i \in from..(Len(s) - Len(pat)) :
                    SubSeq(s, i + 1, i + Len(pat)) = pat}
    IN IF hits = {} THEN -1
       ELSE CHOOSE i \in hits : \A j \in hits : i <= j

\* String.prototype.substring(a, b) with 0 <= a <= b <= length.
Substring(s, a, b) == SubSeq(s, a + 1, b)

\* String.prototype.trim.
RECURSIVE TrimStart(_)
TrimStart(s) ==
    IF s # <<>> /\ Head(s) \in WhiteChars THEN TrimStart(Tail(s)) ELSE s

RECURSIVE TrimEnd(_)
TrimEnd(s) ==
    IF s # <<>> /\ s[Len(s)] \in WhiteChars
    THEN TrimEnd(SubSeq(s, 1, Len(s) - 1)) ELSE s

Trim(s) == TrimEnd(TrimStart(s))

\* String.prototype.split(sep) for a one-character separator.
RECURSIVE Split(_, _)
Split(s, sep) ==
    LET i == IndexOf(s, <<sep>>, 0)
    IN IF i = -1 THEN <<s>>
       ELSE <<Substring(s, 0, i)>> \o Split(Substring(s, i + 1, Len(s)), sep)

RECURSIVE Concat(_)
Concat(ss) == IF ss = <<>> THEN <<>> ELSE Head(ss) \o Concat(Tail(ss))

\* ------------------------------------------------------------------- paths
Sep == "/"
MdExt == <<".", "m", "d">>

\* path.join(dir, name).
PathJoin(dir, name) == dir \o <<Sep>> \o name

\* path.relative(from, to) for a path `to` below the directory `from`.
PathRelative(from, to) ==
    IF StartsWith(to, from \o <<Sep>>)
    THEN Substring(to, Len(from) + 1, Len(to))
    ELSE IF to = from THEN <<>> ELSE to

\* Last component of a path.
LastSegment(p) == LET parts == Split(p, Sep) IN parts[Len(parts)]

\* path.basename(p, ext): the last component, without `ext` when it ends
\* with it and is not `ext` itself.
Basename(p, ext) ==
    LET b == LastSegment(p)
    IN IF EndsWith(b, ext) /\ b # ext
       THEN Substring(b, 0, Len(b) - Len(ext)) ELSE b

\* path.extname(name): from the last dot of the last component, "" when
\* there is none or the only dot is the first character.
Extname(p) ==
    LET b == LastSegment(p)
        dots == {i \in 2..Len(b) : b[i] = "."}
    IN IF dots = {} THEN <<>>
       ELSE SubSeq(b, CHOOSE i \in dots : \A j \in dots : j <= i, Len(b))

\* ------------------------------------------------------------ the vault
\* Spell a word: the characters of the module's string constants.
VaultPath == <<"/", "v">>
HiddenDirName == <<".", "o">>
DocsDirName == <<"D">>
RootNoteName == <<"W", ".", "m", "d">>
DocsNoteName == <<"F", "o", "o", ".", "m", "d">>
AliasNoteName == <<"B", "a", "r", ".", "m", "d">>
HiddenNoteName == <<"h", ".", "m", "d">>
TextFileName == <<"t", ".", "t", "x", "t">>
RootNotePath == PathJoin(VaultPath, RootNoteName)
DocsDirPath == PathJoin(VaultPath, DocsDirName)
DocsNotePath == PathJoin(DocsDirPath, DocsNoteName)
AliasNotePath == PathJoin(DocsDirPath, AliasNoteName)
HiddenDirPath == PathJoin(VaultPath, HiddenDirName)

\* The two sentinels of the directory filter.
NotesInRoot == <<"N","o","t","e","s"," ","I","n"," ","R","o","o","t">>
AllDirs == <<"A", "l", "l">>

\* A directory entry (fs.Dirent): its name and what isDirectory()/isFile() say.
DirEntry(name, isDir) == [name |-> name, isDirectory |-> isDir, isFile |-> ~isDir]

\* The vault's directory tree: each directory with its entries in readdir order.
VaultTree ==
    << [path |-> VaultPath,
        entries |-> << DirEntry(HiddenDirName, TRUE), DirEntry(DocsDirName, TRUE),
                       DirEntry(RootNoteName, FALSE), DirEntry(TextFileName, FALSE) >>],
       [path |-> HiddenDirPath, entries |-> << DirEntry(HiddenNoteName, FALSE) >>],
       [path |-> DocsDirPath,
        entries |-> << DirEntry(AliasNoteName, FALSE), DirEntry(DocsNoteName, FALSE) >>] >>

\* The note files of VaultTree that a scan visits (their modification times are state).
NoteFiles == {RootNotePath, DocsNotePath, AliasNotePath}

\* fs.promises.readdir(dirPath, {withFileTypes: true}) on a tree.
ReadDir(tree, dirPath) ==
    IF \E i \in 1..Len(tree) : tree[i].path = dirPath
    THEN tree[CHOOSE i \in 1..Len(tree) : tree[i].path = dirPath].entries
    ELSE <<>>

Dashes == <<"-", "-", "-">>
NL == <<"\n">>
AliasesKey == <<"a","l","i","a","s","e","s",":">>
ItemPrefix == <<" ", " ", "-", " ">>
RootNoteAlias == <<"W", "a">>
AliasNoteAlias == <<"B", "a">>

\* A note whose front matter declares one alias.
WithAlias(alias) ==
    Dashes \o NL \o AliasesKey \o NL \o ItemPrefix \o alias \o NL
    \o Dashes \o NL \o <<"#", " ", "T">> \o NL

\* Content of the note files: W.md and Bar.md declare an alias each, every
\* other note has no front matter.
FileContent(filePath) ==
    IF filePath = RootNotePath THEN WithAlias(RootNoteAlias)
    ELSE IF filePath = AliasNotePath THEN WithAlias(AliasNoteAlias)
    ELSE <<"b", "o", "d", "y">> \o NL

\* ------------------------------------------------------- scanVaultDirectory
\* The operations one scan performs, in order: a readdir per directory it
\* enters and a callback (visit) per note file, hidden entries skipped.
RECURSIVE ScanEntries(_, _, _)
RECURSIVE scanVaultDirectory(_, _)
scanVaultDirectory(tree, dirPath) ==
    <<[op |-> "readdir", path |-> dirPath]>>
    \o ScanEntries(tree, dirPath, ReadDir(tree, dirPath))

\* A mutant of ScanEntries: hidden directories are entered too.
RECURSIVE ScanEntriesHiddenToo(_, _, _)
ScanEntriesHiddenToo(tree, dirPath, entries) ==
    IF entries = <<>> THEN <<>>
    ELSE LET entry == Head(entries)
             fullPath == PathJoin(dirPath, entry.name)
             here == IF entry.isDirectory THEN scanVaultDirectory(tree, fullPath)
                     ELSE IF StartsWith(entry.name, <<".">>) THEN <<>>
                     ELSE IF entry.isFile /\ Extname(entry.name) = MdExt
                          THEN <<[op |-> "visit", path |-> fullPath]>>
                     ELSE <<>>
         IN here \o ScanEntriesHiddenToo(tree, dirPath, Tail(entries))

ScanEntries(tree, dirPath, entries) ==
    IF entries = <<>> THEN <<>>
    ELSE LET entry == Head(entries)
             fullPath == PathJoin(dirPath, entry.name)
             here == IF StartsWith(entry.name, <<".">>) THEN <<>>
                     ELSE IF entry.isDirectory THEN scanVaultDirectory(tree, fullPath)
                     ELSE IF entry.isFile /\ Extname(entry.name) = MdExt
                          THEN <<[op |-> "visit", path |-> fullPath]>>
                     ELSE <<>>
         IN here \o ScanEntries(tree, dirPath, Tail(entries))

\* ----------------------------------------------------------- extractAliases
\* /aliases:\n((?:  - .*\n)*)/ applied at `rest`, the text after "aliases:\n":
\* the lines "  - <anything but a line break>\n" that follow immediately.
RECURSIVE AliasLines(_)
AliasLines(rest) ==
    LET nl == IndexOf(rest, NL, 0)
        line == Substring(rest, 0, nl)
    IN IF StartsWith(rest, ItemPrefix) /\ nl # -1 /\ "\r" \notin Range(line)
       THEN <<line>> \o AliasLines(Substring(rest, nl + 1, Len(rest)))
       ELSE <<>>

\* extractAliases on the content read from the file.
extractAliases(content) ==
    IF ~StartsWith(content, Dashes) THEN <<>>
    ELSE LET secondDash == IndexOf(content, Dashes, 3)
         IN IF secondDash = -1 THEN <<>>
            ELSE LET frontmatter == Substring(content, 3, secondDash)
                     at == IndexOf(frontmatter, AliasesKey \o NL, 0)
                 IN IF at = -1 THEN <<>>
                    ELSE LET lines == AliasLines(Substring(frontmatter,
                                          at + Len(AliasesKey) + 1, Len(frontmatter)))
                         IN [i \in 1..Len(lines) |->
                                Trim(Substring(lines[i], 4, Len(lines[i])))]

\* -------------------------------------------------------- createObsidianUri
Unreserved == Range(UpperChars) \cup Range(LowerChars) \cup Range(DigitChars)
              \cup {"-", "_", ".", "!", "~", "*", "'", "(", ")"}

\* encodeURIComponent, one character (of the characters the model uses).
EncodeChar(c) ==
    IF c \in Unreserved THEN <<c>>
    ELSE IF c = "/" THEN <<"%", "2", "F">>
    ELSE IF c = " " THEN <<"%", "2", "0">>
    ELSE IF c = ":" THEN <<"%", "3", "A">>
    ELSE <<"%", "?", "?">>

EncodeURIComponent(s) == Concat([i \in 1..Len(s) |-> EncodeChar(s[i])])

UriPrefix == <<"o","b","s","i","d","i","a","n",":","/","/","v","a","u","l","t","/">>

createObsidianUri(vaultPath, notePath) ==
    LET vaultName == LastSegment(vaultPath)
        relativePath == [i \in 1..Len(notePath) |->
                            IF notePath[i] = "\\" THEN "/" ELSE notePath[i]]
        notePathWithoutExt == IF EndsWith(relativePath, MdExt)
                              THEN Substring(relativePath, 0, Len(relativePath) - 3)
                              ELSE relativePath
    IN UriPrefix \o EncodeURIComponent(vaultName) \o <<"/">>
       \o EncodeURIComponent(notePathWithoutExt)

\* ----------------------------------------------------------- loadVaultNotes
\* A directory selection: a Set (has() works) or, as globalState returns it,
\* an Array (it has no has()).
SetOf(items) == [kind |-> "Set", items |-> items]
ArrayOf(items) == [kind |-> "Array", items |-> items]

\* The callback's test: is the note at fullPath inside the selection?
IncludesNote(selectedDirectories, vaultPath, fullPath) ==
    LET relativePath == PathRelative(vaultPath, fullPath)
        rootDir == Split(relativePath, Sep)[1]
    IN \/ AllDirs \in selectedDirectories.items
       \/ (rootDir = <<>> /\ NotesInRoot \in selectedDirectories.items)
       \/ rootDir \in selectedDirectories.items

\* The record the callback pushes for an included note.
NoteInfo(vaultPath, fullPath, content) ==
    LET relativePath == PathRelative(vaultPath, fullPath)
    IN [path |-> fullPath, relativePath |-> relativePath,
        aliases |-> extractAliases(content),
        uri |-> createObsidianUri(vaultPath, relativePath)]

\* --------------------------------------------------------------- the Map
\* A Map is the sequence of its entries in insertion order, keys distinct.
MapHas(m, key) == \E i \in 1..Len(m) : m[i].key = key

\* A mutant of MapSet: a new key goes first.
MapSetInFront(m, key, value) ==
    IF MapHas(m, key)
    THEN [i \in 1..Len(m) |-> IF m[i].key = key
                              THEN [key |-> key, value |-> value] ELSE m[i]]
    ELSE <<[key |-> key, value |-> value]>> \o m

\* Map.prototype.set: a known key keeps its place, a new key goes last.
MapSet(m, key, value) ==
    IF MapHas(m, key)
    THEN [i \in 1..Len(m) |-> IF m[i].key = key
                              THEN [key |-> key, value |-> value] ELSE m[i]]
    ELSE Append(m, [key |-> key, value |-> value])

\* new Map(entries): the entries set one after the other.
RECURSIVE MapFrom(_, _)
MapFrom(m, entries) ==
    IF entries = <<>> THEN m
    ELSE MapFrom(MapSet(m, Head(entries).key, Head(entries).value), Tail(entries))

MapKeys(m) == {m[i].key : i \in 1..Len(m)}

\* ------------------------------------------------------------------- JSON
\* A JSON text is the sequence of its tokens: punctuation, strings, numbers.
Punct(c) == [t |-> "punct", s |-> <<c>>, n |-> 0]
StrTok(s) == [t |-> "string", s |-> s, n |-> 0]
NumTok(n) == [t |-> "number", s |-> <<>>, n |-> n]

KeyNotes == <<"n","o","t","e","s">>
KeyTimestamp == <<"t","i","m","e","s","t","a","m","p">>
KeyFullPath == <<"f","u","l","l","P","a","t","h">>
KeyAliases == <<"a","l","i","a","s","e","s">>
KeyUri == <<"u","r","i">>

StringifyEntry(e) ==
    << Punct("["), StrTok(e.key), Punct("{"),
       StrTok(KeyFullPath), StrTok(e.value.fullPath),
       StrTok(KeyAliases), Punct("[") >>
    \o [i \in 1..Len(e.value.aliases) |-> StrTok(e.value.aliases[i])]
    \o << Punct("]"), StrTok(KeyUri), StrTok(e.value.uri), Punct("}"), Punct("]") >>

\* JSON.stringify({notes: [[key, {fullPath, aliases, uri}], ...], timestamp}).
JSONStringify(cacheData) ==
    << Punct("{"), StrTok(KeyNotes), Punct("[") >>
    \o Concat([i \in 1..Len(cacheData.notes) |-> StringifyEntry(cacheData.notes[i])])
    \o << Punct("]"), StrTok(KeyTimestamp), NumTok(cacheData.timestamp), Punct("}") >>

IsTok(toks, i, tok) == i <= Len(toks) /\ toks[i] = tok
IsStr(toks, i) == i <= Len(toks) /\ toks[i].t = "string"
IsNum(toks, i) == i <= Len(toks) /\ toks[i].t = "number"

\* The string tokens from position i on: their values and the position after.
RECURSIVE ParseStrings(_, _)
ParseStrings(toks, i) ==
    IF IsStr(toks, i)
    THEN LET rest == ParseStrings(toks, i + 1)
         IN [val |-> <<toks[i].s>> \o rest.val, next |-> rest.next]
    ELSE [val |-> <<>>, next |-> i]

\* One [key, {fullPath, aliases, uri}] pair at position i.
ParseEntry(toks, i) ==
    LET aliases == ParseStrings(toks, i + 7)
        j == aliases.next
        ok == /\ IsTok(toks, i, Punct("[")) /\ IsStr(toks, i + 1)
              /\ IsTok(toks, i + 2, Punct("{"))
              /\ IsTok(toks, i + 3, StrTok(KeyFullPath)) /\ IsStr(toks, i + 4)
              /\ IsTok(toks, i + 5, StrTok(KeyAliases))
              /\ IsTok(toks, i + 6, Punct("["))
              /\ IsTok(toks, j, Punct("]"))
              /\ IsTok(toks, j + 1, StrTok(KeyUri)) /\ IsStr(toks, j + 2)
              /\ IsTok(toks, j + 3, Punct("}")) /\ IsTok(toks, j + 4, Punct("]"))
    IN IF ok
       THEN [ok |-> TRUE, next |-> j + 5,
             val |-> [key |-> toks[i + 1].s,
                      value |-> [fullPath |-> toks[i + 4].s, aliases |-> aliases.val,
                                 uri |-> toks[j + 2].s]]]
       ELSE [ok |-> FALSE, next |-> i, val |-> <<>>]

\* The pairs from position i up to the closing bracket of the notes array.
RECURSIVE ParseEntries(_, _)
ParseEntries(toks, i) ==
    IF IsTok(toks, i, Punct("["))
    THEN LET e == ParseEntry(toks, i)
             rest == ParseEntries(toks, e.next)
         IN IF e.ok /\ rest.ok
            THEN [ok |-> TRUE, val |-> <<e.val>> \o rest.val, next |-> rest.next]
            ELSE [ok |-> FALSE, val |-> <<>>, next |-> i]
    ELSE [ok |-> TRUE, val |-> <<>>, next |-> i]

\* JSON.parse of a cache file's text: the text is one that JSON.stringify
\* wrote above, or it is no JSON at all and JSON.parse throws (ok = FALSE).
JSONParse(toks) ==
    LET notes == ParseEntries(toks, 4)
        j == notes.next
        ok == /\ IsTok(toks, 1, Punct("{")) /\ IsTok(toks, 2, StrTok(KeyNotes))
              /\ IsTok(toks, 3, Punct("[")) /\ notes.ok
              /\ IsTok(toks, j, Punct("]")) /\ IsTok(toks, j + 1, StrTok(KeyTimestamp))
              /\ IsNum(toks, j + 2) /\ IsTok(toks, j + 3, Punct("}"))
              /\ Len(toks) = j + 3
    IN IF ok THEN [ok |-> TRUE, notes |-> notes.val, timestamp |-> toks[j + 2].n]
       ELSE [ok |-> FALSE, notes |-> <<>>, timestamp |-> 0]

\* ------------------------------------------------------------ cache file
\* The cache file: absent, or present with a text.
NoFile == [exists |-> FALSE, text |-> <<>>]
FileWith(text) == [exists |-> TRUE, text |-> text]
\* Bytes that are not JSON (a text cut short).
GarbageText == << Punct("{"), StrTok(KeyNotes) >>

\* A mutant of saveCache: the timestamp is not written.
saveCacheWithoutTimestamp(notesCache, lastUpdateTime) ==
    JSONStringify([notes |-> notesCache, timestamp |-> 0])

\* saveCache: the text written, from the Map and the timestamp it is given.
saveCache(notesCache, lastUpdateTime) ==
    JSONStringify([notes |-> notesCache, timestamp |-> lastUpdateTime])

\* A mutant of loadCache: when nothing is loaded it returns a new empty Map
\* and timestamp 0.
loadCacheEmptyDefaults(file, dirOk, notesCache, lastUpdateTime) ==
    LET defaults == [notesCache |-> <<>>, lastUpdateTime |-> 0, cacheLoaded |-> FALSE]
        cacheData == JSONParse(file.text)
    IN IF ~dirOk \/ ~file.exists \/ ~cacheData.ok THEN defaults
       ELSE [notesCache |-> MapFrom(<<>>, cacheData.notes),
             lastUpdateTime |-> cacheData.timestamp, cacheLoaded |-> TRUE]

\* loadCache: what it returns for the file it finds. `dirOk` is the outcome
\* of getCachePath's mkdir; the Map and the timestamp passed in are the
\* defaults it returns when nothing is loaded.
loadCache(file, dirOk, notesCache, lastUpdateTime) ==
    LET defaults == [notesCache |-> notesCache, lastUpdateTime |-> lastUpdateTime,
                     cacheLoaded |-> FALSE]
        cacheData == JSONParse(file.text)
    IN IF ~dirOk THEN defaults
       ELSE IF ~file.exists THEN defaults
       ELSE IF ~cacheData.ok THEN defaults
       ELSE [notesCache |-> MapFrom(<<>>, cacheData.notes),
             lastUpdateTime |-> cacheData.timestamp, cacheLoaded |-> TRUE]

\* ------------------------------------------------------------- the state
VARIABLES
    clock,               \* Date.now(), and the time a file's mtime is set to
    mtime,               \* mtimeMs of every note file of the vault
    connectedVault,      \* globalState "connectedVault" names the vault
    savedDirectories,    \* globalState "selectedDirectories"
    cacheFile,           \* the cache file in the global storage directory
    notesCache,          \* the one Map that activate creates and hands out
    lastUpdateTime,      \* extension.js: the module's lastUpdateTime
    selectedDirectories, \* extension.js: the module's selectedDirectories
    cmdLastUpdateTime,   \* the lastUpdateTime parameter each register* closes over
    cacheLoaded,         \* activate: what loadCache returned
    quickPick,           \* pickDirectories: the QuickPick and what its handlers close over
    proc,                \* every async handler: where it is suspended, and its locals
    hover,               \* what the hover provider found last
    call,                \* a function called on its own: its arguments and its result
    faults,              \* I/O operations that have failed
    cmds,                \* user commands issued
    builds,              \* history: every index installed, with the timestamp taken for it
    decorationTimer,     \* extension.js (single file): the module's decorationTimer, 0 for null
    timers,              \* the timeouts the host has pending
    runs,                \* history: the events so far and the runs of updateDecorations
    deactivate,          \* extension.js (single file): deactivate, and where its saveCache is suspended
    openedWith           \* history: the module's selectedDirectories when the picker was asked for

vars == << clock, mtime, connectedVault, savedDirectories, cacheFile, notesCache,
           lastUpdateTime, selectedDirectories, cmdLastUpdateTime, cacheLoaded,
           quickPick, proc, hover, call, faults, cmds, builds, decorationTimer,
           timers, runs, deactivate, openedWith >>

Procs == {"activate", "update", "connect", "pick", "accept"}
Commands == {"update", "connect", "pick"}

NotSaved == [saved |-> FALSE, items |-> {}]
Saved(items) == [saved |-> TRUE, items |-> items]

\* No note has been read (readAt records history: the modification time each
\* note had when the refresh in progress read it, 0 before).
NotRead == [f \in NoteFiles |-> 0]

Idle == [pc |-> "idle", site |-> "none", selectedDirectories |-> SetOf({}),
         lastUpdateTime |-> 0, idx |-> 0, notes |-> <<>>, latestModification |-> 0,
         newLastUpdateTime |-> 0, text |-> <<>>, result |-> "none", alone |-> FALSE,
         readAt |-> NotRead]

\* A handler that has ended: only the outcome of its refresh is kept.
Ended(l, pc) == [Idle EXCEPT !.pc = pc, !.result = l.result]

NoQuickPick == [open |-> FALSE, items |-> {}, selectedItems |-> {},
                selectedDirectories |-> SetOf({}), lastUpdateTime |-> 0]

\* No event has been reported and updateDecorations has not run. `byTimer` and
\* `byRefresh` count the runs since the last event that armed the timer, by
\* what called updateDecorations; `late` holds the callers of the runs after
\* deactivate().
NoRuns == [events |-> 0, armed |-> FALSE, byTimer |-> 0, byRefresh |-> 0, late |-> {}]

\* deactivate() has not been called.
NotDeactivated == [pc |-> "idle", text |-> <<>>, lastUpdateTime |-> 0]

\* pickDirectories has not been called.
NotOpened == [selectedDirectories |-> SetOf({}), accepted |-> FALSE]

\* No function is called on its own.
NoCall == [fn |-> "none", args |-> <<>>, done |-> FALSE, result |-> <<>>]

NotReturned == [returned |-> FALSE, notesCache |-> <<>>, lastUpdateTime |-> 0,
                cacheLoaded |-> FALSE]

\* The order in which one scan of the vault reads directories and visits notes.
Plan == scanVaultDirectory(VaultTree, VaultPath)

\* A handler that is suspended in an await.
Running(l) == l.pc \notin {"idle", "done", "deactivated"}

\* Everything a handler may write, as one record G; the operators below are
\* the code between two awaits, from G to the G it leaves.
Globals == [connectedVault |-> connectedVault, savedDirectories |-> savedDirectories,
            cacheFile |-> cacheFile, notesCache |-> notesCache,
            lastUpdateTime |-> lastUpdateTime, cmdLastUpdateTime |-> cmdLastUpdateTime,
            cacheLoaded |-> cacheLoaded, quickPick |-> quickPick, proc |-> proc,
            builds |-> builds]

Becomes(G) ==
    /\ connectedVault' = G.connectedVault
    /\ savedDirectories' = G.savedDirectories
    /\ cacheFile' = G.cacheFile
    /\ notesCache' = G.notesCache
    /\ lastUpdateTime' = G.lastUpdateTime
    /\ cmdLastUpdateTime' = G.cmdLastUpdateTime
    /\ cacheLoaded' = G.cacheLoaded
    /\ quickPick' = G.quickPick
    /\ proc' = G.proc
    /\ builds' = G.builds

SetProc(G, p, l) == [G EXCEPT !.proc[p] = l]

\* The handler p ends; the accept handler's QuickPick is hidden with it.
End(G, p) ==
    LET G1 == SetProc(G, p, Ended(G.proc[p], IF p = "activate" THEN "done" ELSE "idle"))
    IN IF p = "accept" THEN [G1 EXCEPT !.quickPick = NoQuickPick] ELSE G1

\* JavaScript's "!" on the object that loadCache returns: an object is truthy.
NotObject(result) == FALSE

\* The first operation at or after plan[i] that a scan awaits. The staleness
\* scan awaits every readdir and every stat; loadVaultNotes awaits every
\* readdir and the readFile of every note its filter includes, and throws at
\* the first note when the filter has no "has" method.
RECURSIVE Seek(_, _, _)
Seek(kind, filter, i) ==
    IF i > Len(Plan) THEN [at |-> "end", idx |-> i]
    ELSE IF Plan[i].op = "readdir" \/ kind = "stale" THEN [at |-> "io", idx |-> i]
    ELSE IF filter.kind # "Set" THEN [at |-> "throw", idx |-> i]
    ELSE IF IncludesNote(filter, VaultPath, Plan[i].path) THEN [at |-> "io", idx |-> i]
    ELSE Seek(kind, filter, i + 1)

\* isVaultModified(vaultPath, lastUpdateTime) is called: it suspends in its
\* first readdir.
CallIsVaultModified(G, p, site, lut) ==
    SetProc(G, p, [G.proc[p] EXCEPT !.pc = "stale", !.site = site,
                                    !.lastUpdateTime = lut, !.idx = 1,
                                    !.latestModification = 0])

\* A mutant of CallSaveCache: the filter of the refresh is persisted with the cache.
CallSaveCachePersistingFilter(G, p, pc, lut) ==
    SetProc([G EXCEPT !.savedDirectories = Saved(G.proc[p].selectedDirectories.items)],
            p, [G.proc[p] EXCEPT !.pc = pc, !.lastUpdateTime = lut])

\* saveCache(context, notesCache, lastUpdateTime) is called: it suspends in
\* getCachePath's mkdir. `pc` tells the call inside updateNotesInformation
\* ("mkdir") from the one a command makes itself ("mkdir2").
CallSaveCache(G, p, pc, lut) ==
    SetProc(G, p, [G.proc[p] EXCEPT !.pc = pc, !.lastUpdateTime = lut])

\* pickDirectories after its staleness check: the saved selection is read
\* and getRootDirectories suspends in its readdir. Called by the connect
\* command the default is the empty Set, by the pick command "Notes In Root".
PdContinue(G, p) ==
    LET default == IF p = "connect" THEN {} ELSE {NotesInRoot}
        sel == IF G.savedDirectories.saved THEN G.savedDirectories.items ELSE default
    IN SetProc(G, p, [G.proc[p] EXCEPT !.pc = "dirs", !.selectedDirectories = SetOf(sel),
                                       !.idx = 0, !.latestModification = 0])

\* updateNotesInformation returned {notesCache, lastUpdateTime: newLut} to
\* its caller, which assigns both and goes on.
UpdateReturns(G, p, newLut) ==
    LET l == [G.proc[p] EXCEPT !.result = "returned", !.notes = <<>>, !.idx = 0,
                               !.newLastUpdateTime = 0, !.text = <<>>,
                               !.readAt = NotRead]
        G1 == SetProc(G, p, l)
    IN CASE p = "activate" ->
              End([G1 EXCEPT !.lastUpdateTime = newLut], p)
         [] p = "update" ->
              CallSaveCache([G1 EXCEPT !.cmdLastUpdateTime["update"] = newLut],
                            p, "mkdir2", newLut)
         [] p = "connect" /\ l.site = "connect" ->
              CallIsVaultModified([G1 EXCEPT !.cmdLastUpdateTime["connect"] = newLut],
                                  p, "pickDirectories", newLut)
         [] p \in {"connect", "pick"} /\ l.site = "pickDirectories" ->
              PdContinue(SetProc(G1, p, [l EXCEPT !.lastUpdateTime = newLut]), p)
         [] p = "accept" ->
              CallSaveCache([G1 EXCEPT !.quickPick.lastUpdateTime = newLut],
                            p, "mkdir2", newLut)

\* A mutant of UpdateThrows: the failed refresh leaves an emptied Map behind.
UpdateThrowsDestructive(G, p) ==
    [G EXCEPT !.notesCache = <<>>,
              !.proc[p] = Ended([G.proc[p] EXCEPT !.result = "threw"],
                                IF p = "activate" THEN "done" ELSE "idle"),
              !.quickPick = IF p = "accept" THEN NoQuickPick ELSE @]

\* A mutant of UpdateThrows: a failure inside the scan is swallowed and the
\* scan goes on with the next entry it awaits.
UpdateSkipsFailure(G, p) ==
    LET l == G.proc[p]
        nxt == Seek("load", l.selectedDirectories, l.idx + 1)
    IN IF l.pc = "scan" /\ l.selectedDirectories.kind = "Set" /\ nxt.at = "io"
       THEN SetProc(G, p, [l EXCEPT !.idx = nxt.idx])
       ELSE End(SetProc(G, p, [l EXCEPT !.result = "threw"]), p)

\* updateNotesInformation threw: it has logged and shown the error, and the
\* caller's catch ends the handler.
UpdateThrows(G, p) ==
    End(SetProc(G, p, [G.proc[p] EXCEPT !.result = "threw"]), p)

\* updateNotesInformation once loadVaultNotes has returned `notes`: the Map is
\* cleared and filled, the time is taken, and saveCache is called.
InstallNotes(vaultPath, notes) ==
    MapFrom(<<>>, [i \in 1..Len(notes) |->
                     [key |-> PathRelative(vaultPath, notes[i].path),
                      value |-> [fullPath |-> notes[i].path,
                                 aliases |-> notes[i].aliases, uri |-> notes[i].uri]]])

\* `builds` records history: the Map as it has just been filled, with the
\* timestamp taken for it.
Built(G, now) ==
    [G EXCEPT !.builds = @ \cup {[notesCache |-> G.notesCache, lastUpdateTime |-> now]}]

\* A mutant of Install: only the notes modified since the last build are installed.
InstallModifiedOnly(G, p, now) ==
    LET l == G.proc[p]
        fresh == SelectSeq(l.notes, LAMBDA n : mtime[n.path] > G.lastUpdateTime)
        G1 == Built([G EXCEPT !.notesCache = InstallNotes(VaultPath, fresh)], now)
    IN SetProc(G1, p, [l EXCEPT !.pc = "mkdir", !.newLastUpdateTime = now,
                                !.notes = <<>>, !.idx = 0])

\* A mutant of Install: the Map is filled without being cleared first.
InstallWithoutClear(G, p, now) ==
    LET l == G.proc[p]
        added == InstallNotes(VaultPath, l.notes)
        G1 == Built([G EXCEPT !.notesCache = MapFrom(G.notesCache, added)], now)
    IN SetProc(G1, p, [l EXCEPT !.pc = "mkdir", !.newLastUpdateTime = now,
                                !.notes = <<>>, !.idx = 0])

\* A mutant of Install: the notes array is shared by the scans in flight, so
\* an install takes what every running scan has gathered so far.
InstallSharedNotes(G, p, now) ==
    LET l == G.proc[p]
        others == {q \in Procs \ {p} : G.proc[q].pc = "scan"}
        RECURSIVE gathered(_)
        gathered(Q) == IF Q = {} THEN <<>>
                       ELSE LET q == CHOOSE x \in Q : TRUE
                            IN G.proc[q].notes \o gathered(Q \ {q})
        G1 == Built([G EXCEPT !.notesCache =
                                 InstallNotes(VaultPath, l.notes \o gathered(others))], now)
    IN SetProc(G1, p, [l EXCEPT !.pc = "mkdir", !.newLastUpdateTime = now,
                                !.notes = <<>>, !.idx = 0])

Install(G, p, now) ==
    LET l == G.proc[p]
        G1 == Built([G EXCEPT !.notesCache = InstallNotes(VaultPath, l.notes)], now)
    IN SetProc(G1, p, [l EXCEPT !.pc = "mkdir", !.newLastUpdateTime = now,
                                !.notes = <<>>, !.idx = 0])

\* A mutant of CallUpdate: the Map is cleared before the scan, not after it.
CallUpdateClearingFirst(G, p, site, filter) ==
    [G EXCEPT !.notesCache = <<>>,
              !.proc[p] = [G.proc[p] EXCEPT !.pc = "scan", !.site = site,
                                            !.selectedDirectories = filter, !.idx = 1,
                                            !.notes = <<>>, !.latestModification = 0,
                                            !.result = "none", !.readAt = NotRead,
                                            !.alone = \A q \in Procs \ {p} :
                                                          ~Running(G.proc[q])]]

\* updateNotesInformation(vaultPath, true, ...) is called with a filter:
\* loadVaultNotes suspends in its first readdir.
CallUpdate(G, p, site, filter) ==
    SetProc(G, p, [G.proc[p] EXCEPT !.pc = "scan", !.site = site,
                                    !.selectedDirectories = filter, !.idx = 1,
                                    !.notes = <<>>, !.latestModification = 0,
                                    !.result = "none", !.readAt = NotRead,
                                    !.alone = \A q \in Procs \ {p} : ~Running(G.proc[q])])

\* isVaultModified returned needsRefresh to the code that called it.
AfterStale(G, p, needsRefresh) ==
    LET l == G.proc[p]
    IN CASE p = "activate" ->
              IF NotObject(G.cacheLoaded) \/ needsRefresh
              THEN CallUpdate(G, p, "activate", selectedDirectories)
              ELSE End(G, p)
         [] p = "update" ->
              IF ~needsRefresh THEN End(G, p)
              ELSE CallUpdate(G, p, "update", l.selectedDirectories)
         [] p \in {"connect", "pick"} ->
              IF needsRefresh THEN CallUpdate(G, p, "pickDirectories", l.selectedDirectories)
              ELSE PdContinue(G, p)

\* ------------------------------------------------------------ note search
WordChars == Range(UpperChars) \cup Range(LowerChars) \cup Range(DigitChars) \cup {"_"}

\* Two mutants of StripTrailing: nothing is removed; one character at most is.
StripNothing(s) == s
StripTrailingOne(s) ==
    IF s # <<>> /\ s[Len(s)] \notin (WordChars \cup {".", "-"})
    THEN SubSeq(s, 1, Len(s) - 1) ELSE s

\* str.replace(/[^\w.-]+$/, ""), then toLowerCase() when case-insensitive.
RECURSIVE StripTrailing(_)
StripTrailing(s) ==
    IF s # <<>> /\ s[Len(s)] \notin (WordChars \cup {".", "-"})
    THEN StripTrailing(SubSeq(s, 1, Len(s) - 1)) ELSE s

normalizeForComparison(str, caseInsensitive) ==
    IF caseInsensitive THEN ToLowerCase(StripTrailing(str)) ELSE StripTrailing(str)

CASE_INSENSITIVE == TRUE

Null == [type |-> "null", path |-> <<>>, fullPath |-> <<>>, matchedAlias |-> <<>>,
         uri |-> <<>>]

Comparable(s, caseInsensitive, applyNormalization) ==
    IF applyNormalization THEN normalizeForComparison(s, caseInsensitive)
    ELSE IF caseInsensitive THEN ToLowerCase(s) ELSE s

\* A mutant of findExactMatch: a record's aliases are compared before its title.
RECURSIVE findExactMatchAliasesFirst(_, _, _, _)
findExactMatchAliasesFirst(searchWord, caseInsensitive, applyNormalization, entries) ==
    IF entries = <<>> THEN Null
    ELSE LET e == Head(entries)
             normalizedSearch == IF caseInsensitive THEN ToLowerCase(searchWord)
                                 ELSE searchWord
             hits == {i \in 1..Len(e.value.aliases) :
                         Comparable(e.value.aliases[i], caseInsensitive, applyNormalization)
                             = normalizedSearch}
         IN IF hits # {}
            THEN [type |-> "alias", path |-> e.key, fullPath |-> e.value.fullPath,
                  matchedAlias |-> e.value.aliases[CHOOSE i \in hits : \A j \in hits : i <= j],
                  uri |-> e.value.uri]
            ELSE IF Comparable(Basename(e.key, MdExt), caseInsensitive, applyNormalization)
                        = normalizedSearch
            THEN [type |-> "filename", path |-> e.key, fullPath |-> e.value.fullPath,
                  matchedAlias |-> <<>>, uri |-> e.value.uri]
            ELSE findExactMatchAliasesFirst(searchWord, caseInsensitive,
                                            applyNormalization, Tail(entries))

\* The first entry, in the Map's order, whose file name or one of whose
\* aliases compares equal to the search word.
RECURSIVE findExactMatch(_, _, _, _)
findExactMatch(searchWord, caseInsensitive, applyNormalization, entries) ==
    IF entries = <<>> THEN Null
    ELSE LET e == Head(entries)
             normalizedSearch == IF caseInsensitive THEN ToLowerCase(searchWord)
                                 ELSE searchWord
             fileName == Basename(e.key, MdExt)
             hits == {i \in 1..Len(e.value.aliases) :
                         Comparable(e.value.aliases[i], caseInsensitive, applyNormalization)
                             = normalizedSearch}
         IN IF Comparable(fileName, caseInsensitive, applyNormalization) = normalizedSearch
            THEN [type |-> "filename", path |-> e.key, fullPath |-> e.value.fullPath,
                  matchedAlias |-> <<>>, uri |-> e.value.uri]
            ELSE IF hits # {}
            THEN [type |-> "alias", path |-> e.key, fullPath |-> e.value.fullPath,
                  matchedAlias |-> e.value.aliases[CHOOSE i \in hits : \A j \in hits : i <= j],
                  uri |-> e.value.uri]
            ELSE findExactMatch(searchWord, caseInsensitive, applyNormalization,
                                Tail(entries))

\* A mutant of findNoteMatch: the normalized pass runs first.
findNoteMatchNormalizedFirst(word, entries, caseInsensitive) ==
    LET normalized == findExactMatch(normalizeForComparison(word, caseInsensitive),
                                     caseInsensitive, TRUE, entries)
    IN IF normalized # Null THEN normalized
       ELSE findExactMatch(word, caseInsensitive, FALSE, entries)

findNoteMatch(word, entries, caseInsensitive) ==
    LET exactMatch == findExactMatch(word, caseInsensitive, FALSE, entries)
    IN IF exactMatch # Null THEN exactMatch
       ELSE findExactMatch(normalizeForComparison(word, caseInsensitive),
                           caseInsensitive, TRUE, entries)

\* The words hovered over.
HoverWords == { <<"f","o","o">> }
NoHover == Null

\* The notes one whole scan under `filter` returns, and the index built of them.
RECURSIVE NotesFrom(_, _)
NotesFrom(filter, i) ==
    IF i > Len(Plan) THEN <<>>
    ELSE IF Plan[i].op = "visit" /\ IncludesNote(filter, VaultPath, Plan[i].path)
    THEN <<NoteInfo(VaultPath, Plan[i].path, FileContent(Plan[i].path))>>
         \o NotesFrom(filter, i + 1)
    ELSE NotesFrom(filter, i + 1)

BuildIndex(filter) == InstallNotes(VaultPath, NotesFrom(filter, 1))

\* getRootDirectories: the names of the root's directories that are not hidden.
getRootDirectories(tree, vaultPath) ==
    LET entries == ReadDir(tree, vaultPath)
    IN {entries[i].name : i \in {j \in 1..Len(entries) :
                                   entries[j].isDirectory /\ ~StartsWith(entries[j].name, <<".">>)}}

\* ---------------------------------------------------------------- Init
\* The state when activate() has returned: the saved selection is restored,
\* the commands and the hover provider are registered with the Map and with
\* lastUpdateTime = 0, and the startup block, if a vault is connected, is
\* suspended in loadCache.
InitSaved == { NotSaved, Saved({DocsDirName}) }
\* A mutant of RestoredDirectories: without a saved selection the filter is "All".
RestoredOrAll(saved) ==
    IF saved.saved THEN SetOf(saved.items) ELSE SetOf({AllDirs})

RestoredDirectories(saved) ==
    IF saved.saved THEN SetOf(saved.items) ELSE SetOf({NotesInRoot})

\* The cache file an earlier session saved at time 1 under the saved selection.
EarlierCache(saved) == FileWith(saveCache(BuildIndex(RestoredDirectories(saved)), 1))

\* The build that a cache file left by an earlier session comes from.
InitialBuilds(file) ==
    LET cacheData == JSONParse(file.text)
    IN IF file.exists /\ cacheData.ok
       THEN {[notesCache |-> MapFrom(<<>>, cacheData.notes),
              lastUpdateTime |-> cacheData.timestamp]}
       ELSE {}

Activated(connected, saved, file, times) ==
    /\ clock = 1
    /\ mtime = [f \in NoteFiles |-> times]
    /\ connectedVault = connected
    /\ savedDirectories = saved
    /\ cacheFile = file
    /\ notesCache = <<>>
    /\ lastUpdateTime = 0
    /\ selectedDirectories = RestoredDirectories(saved)
    /\ cmdLastUpdateTime = [c \in Commands |-> 0]
    /\ cacheLoaded = NotReturned
    /\ quickPick = NoQuickPick
    /\ proc = [p \in Procs |->
                 IF p = "activate"
                 THEN [Idle EXCEPT !.pc = IF connected THEN "access" ELSE "done",
                                   !.alone = connected]
                 ELSE Idle]
    /\ hover = NoHover
    /\ call = NoCall
    /\ faults = 0
    /\ cmds = 0
    /\ openedWith = NotOpened
    /\ deactivate = NotDeactivated
    /\ runs = NoRuns
    /\ timers = {}
    /\ decorationTimer = 0
    /\ builds = InitialBuilds(file)

\* A session: the extension is new (no vault, no selection, no cache file),
\* or a vault is connected and an earlier session left its cache.
Init ==
    \/ Activated(FALSE, NotSaved, NoFile, 1)
    \/ \E saved \in InitSaved : Activated(TRUE, saved, EarlierCache(saved), 1)

\* ------------------------------------------------------------- environment
\* The notes that are edited while the extension runs.
Editable == {DocsNotePath}

\* An awaited I/O operation completes, well or (a bounded number of times) not.
IO(ok) ==
    /\ ok \/ faults < MaxFaults
    /\ faults' = IF ok THEN faults ELSE faults + 1

\* The handlers that are suspended in an await.
InFlight == Cardinality({p \in Procs : Running(proc[p])})

\* The user issues a command: a bounded number of times, and only while
\* fewer than MaxInFlight handlers are running.
Command ==
    /\ proc["activate"].pc # "deactivated"
    /\ cmds < MaxCmds /\ InFlight < MaxInFlight /\ cmds' = cmds + 1

\* `alone` records history: no other handler has been running since this
\* handler started or, later, since it called updateNotesInformation. When a
\* handler starts, no running handler is alone any more.
Joined(G) == [G EXCEPT !.proc = [q \in Procs |-> [G.proc[q] EXCEPT !.alone = FALSE]]]

\* The locals of a handler that starts now.
Started == [Idle EXCEPT !.alone = (InFlight = 0)]

Max(a, b) == IF a > b THEN a ELSE b

\* A note is edited in Obsidian, at a later time than everything before.
Touch(f) ==
    /\ clock < MaxClock
    /\ clock' = clock + 1
    /\ mtime' = [mtime EXCEPT ![f] = clock + 1]
    /\ UNCHANGED << connectedVault, savedDirectories, cacheFile, notesCache,
                    lastUpdateTime, selectedDirectories, cmdLastUpdateTime,
                    cacheLoaded, quickPick, proc, hover, call,
                    faults, cmds, builds, decorationTimer, timers, runs, deactivate, openedWith >>

Env == << clock, mtime, selectedDirectories, hover, call, decorationTimer, timers,
         runs, deactivate, openedWith >>

\* ----------------------------------------------------------------- startup
\* loadCache has returned `res`; the startup block calls isVaultModified.
AfterLoad(G, res) ==
    CallIsVaultModified(
        [G EXCEPT !.cacheLoaded = [returned |-> TRUE, notesCache |-> res.notesCache,
                                   lastUpdateTime |-> res.lastUpdateTime,
                                   cacheLoaded |-> res.cacheLoaded]],
        "activate", "activate", G.lastUpdateTime)

\* loadCache: getCachePath and the existence check complete.
LoadAccess(ok) ==
    /\ proc["activate"].pc = "access"
    /\ IO(ok)
    /\ IF ok /\ cacheFile.exists
       THEN Becomes(SetProc(Globals, "activate", [proc["activate"] EXCEPT !.pc = "read"]))
       ELSE Becomes(AfterLoad(Globals, loadCache(cacheFile, ok, notesCache, lastUpdateTime)))
    /\ UNCHANGED << Env, cmds >>

\* loadCache: readFile completes and the text is parsed.
LoadRead(ok) ==
    /\ proc["activate"].pc = "read"
    /\ IO(ok)
    /\ Becomes(AfterLoad(Globals, loadCache(cacheFile, ok, notesCache, lastUpdateTime)))
    /\ UNCHANGED << Env, cmds >>

\* ------------------------------------------------------------------- scans
\* isVaultModified: a readdir or a stat completes. A failure is caught and
\* answered with true.
StaleStep(p, ok) ==
    /\ proc[p].pc = "stale"
    /\ IO(ok)
    /\ LET l == proc[p]
           op == Plan[l.idx]
           latest == IF op.op = "visit" THEN Max(l.latestModification, mtime[op.path])
                     ELSE l.latestModification
           nxt == Seek("stale", l.selectedDirectories, l.idx + 1)
       IN IF ~ok THEN Becomes(AfterStale(Globals, p, TRUE))
          ELSE IF nxt.at = "end"
          THEN Becomes(AfterStale(Globals, p, latest > l.lastUpdateTime))
          ELSE Becomes(SetProc(Globals, p, [l EXCEPT !.idx = nxt.idx,
                                                     !.latestModification = latest]))
    /\ UNCHANGED << Env, cmds >>

\* loadVaultNotes: a readdir or the readFile of an included note completes.
\* A failure is rethrown through updateNotesInformation.
ScanStep(p, ok) ==
    /\ proc[p].pc = "scan"
    /\ IO(ok)
    /\ LET l == proc[p]
           op == Plan[l.idx]
           notes == IF op.op = "visit"
                    THEN Append(l.notes, NoteInfo(VaultPath, op.path, FileContent(op.path)))
                    ELSE l.notes
           readAt == IF op.op = "visit" THEN [l.readAt EXCEPT ![op.path] = mtime[op.path]]
                     ELSE l.readAt
           nxt == Seek("load", l.selectedDirectories, l.idx + 1)
           G == SetProc(Globals, p, [l EXCEPT !.notes = notes, !.readAt = readAt])
       IN IF ~ok \/ nxt.at = "throw" THEN Becomes(UpdateThrows(Globals, p))
          ELSE IF nxt.at = "end" THEN Becomes(Install(G, p, clock))
          ELSE Becomes(SetProc(G, p, [G.proc[p] EXCEPT !.idx = nxt.idx]))
    /\ UNCHANGED << Env, cmds >>

\* saveCache: getCachePath completes; the Map's entries, as they are now, and
\* the timestamp are made into the text to write.
SaveMkdir(p, ok) ==
    /\ proc[p].pc \in {"mkdir", "mkdir2"}
    /\ IO(ok)
    /\ LET l == proc[p]
           inner == l.pc = "mkdir"
           map == IF p = "connect" /\ ~inner THEN <<>> ELSE notesCache
           ts == IF inner THEN l.newLastUpdateTime ELSE l.lastUpdateTime
       IN IF ok
          THEN Becomes(SetProc(Globals, p,
                   [l EXCEPT !.pc = IF inner THEN "write" ELSE "write2",
                             !.text = saveCache(map, ts)]))
          ELSE IF inner THEN Becomes(UpdateReturns(Globals, p, l.newLastUpdateTime))
          ELSE Becomes(End(Globals, p))
    /\ UNCHANGED << Env, cmds >>

\* saveCache: writeFile completes. A failed save inside
\* updateNotesInformation is logged and the refresh returns all the same; a
\* failed save of a command ends the command in its catch.
SaveWrite(p, ok) ==
    /\ proc[p].pc \in {"write", "write2"}
    /\ IO(ok)
    /\ LET l == proc[p]
           G == IF ok THEN [Globals EXCEPT !.cacheFile = FileWith(l.text)] ELSE Globals
       IN IF l.pc = "write" THEN Becomes(UpdateReturns(G, p, l.newLastUpdateTime))
          ELSE Becomes(End(G, p))
    /\ UNCHANGED << Env, cmds >>

\* ---------------------------------------------------------------- commands
\* "Update Notes Information": without a vault a warning; otherwise the
\* filter is what globalState holds (an Array) or the default Set, and the
\* staleness check starts with the command's own lastUpdateTime.
UpdateCmd ==
    /\ proc["update"].pc = "idle"
    /\ Command
    /\ IF ~connectedVault THEN Becomes(Globals)
       ELSE LET filter == IF savedDirectories.saved THEN ArrayOf(savedDirectories.items)
                          ELSE SetOf({NotesInRoot})
                G == SetProc(Joined(Globals), "update",
                             [Started EXCEPT !.selectedDirectories = filter])
            IN Becomes(CallIsVaultModified(G, "update", "update",
                                           cmdLastUpdateTime["update"]))
    /\ UNCHANGED << Env, faults >>

\* A picker is about to be shown or is shown, or its accept handler runs.
PickerBusy ==
    \/ quickPick.open
    \/ proc["accept"].pc # "idle"
    \/ proc["pick"].pc # "idle"
    \/ proc["connect"].pc # "idle" /\ proc["connect"].site # "disconnect"

\* "Connect With Obsidian": with a vault connected it disconnects, and
\* suspends in globalState.update; without, it looks for Obsidian and its
\* vaults and suspends in the vault picker.
ConnectCmd ==
    /\ proc["connect"].pc = "idle"
    /\ Command
    /\ IF connectedVault
       THEN Becomes(SetProc([Joined(Globals) EXCEPT !.connectedVault = FALSE], "connect",
                            [Started EXCEPT !.pc = "kv", !.site = "disconnect"]))
       ELSE /\ ~PickerBusy
            /\ Becomes(SetProc(Joined(Globals), "connect",
                               [Started EXCEPT !.pc = "choose", !.site = "connect"]))
    /\ UNCHANGED << Env, faults >>

\* The vault picker returns: nothing found or chosen, or the vault, which is
\* stored as connectedVault.
ChooseVault(chosen) ==
    /\ proc["connect"].pc = "choose"
    /\ IF chosen
       THEN Becomes(SetProc([Globals EXCEPT !.connectedVault = TRUE], "connect",
                            [proc["connect"] EXCEPT !.pc = "kv"]))
       ELSE Becomes(End(Globals, "connect"))
    /\ UNCHANGED << Env, faults, cmds >>

\* An awaited globalState.update completes. Disconnecting then clears the
\* Map, zeroes the connect command's lastUpdateTime and saves an empty cache;
\* connecting refreshes under "Notes In Root"; the accept handler refreshes
\* under the picker's selection.
KvStep(p, ok) ==
    /\ proc[p].pc = "kv"
    /\ IO(ok)
    /\ IF ~ok THEN Becomes(End(Globals, p))
       ELSE IF p = "accept"
       THEN Becomes(CallUpdate(Globals, p, "accept", quickPick.selectedDirectories))
       ELSE IF proc[p].site = "disconnect"
       THEN Becomes(CallSaveCache([Globals EXCEPT !.notesCache = <<>>,
                                                  !.cmdLastUpdateTime["connect"] = 0],
                                  p, "mkdir2", 0))
       ELSE Becomes(CallUpdate(Globals, p, "connect", SetOf({NotesInRoot})))
    /\ UNCHANGED << Env, cmds >>

\* "Pick Directories": pickDirectories with the command's lastUpdateTime.
PickCmd ==
    /\ ~PickerBusy
    /\ Command
    /\ IF ~connectedVault THEN Becomes(Globals)
       ELSE LET filter == IF savedDirectories.saved THEN SetOf(savedDirectories.items)
                          ELSE SetOf({NotesInRoot})
                G == SetProc(Joined(Globals), "pick",
                             [Started EXCEPT !.selectedDirectories = filter])
            IN Becomes(CallIsVaultModified(G, "pick", "pickDirectories",
                                           cmdLastUpdateTime["pick"]))
    /\ UNCHANGED << Env, faults >>

\* pickDirectories: getRootDirectories completes and the QuickPick is shown,
\* with the items of the saved selection picked.
DirsStep(p, ok) ==
    /\ proc[p].pc = "dirs"
    /\ IO(ok)
    /\ LET l == proc[p]
           items == {NotesInRoot} \cup getRootDirectories(VaultTree, VaultPath)
           shown == [open |-> TRUE, items |-> items,
                     selectedItems |-> items \cap l.selectedDirectories.items,
                     selectedDirectories |-> l.selectedDirectories,
                     lastUpdateTime |-> l.lastUpdateTime]
       IN IF ok THEN Becomes(End([Globals EXCEPT !.quickPick = shown], p))
          ELSE Becomes(End(Globals, p))
    /\ UNCHANGED << Env, cmds >>

\* onDidChangeSelection: an empty selection is warned about and not taken.
ChangeSelection(sel) ==
    /\ quickPick.open
    /\ proc["accept"].pc \in {"idle", "kv"}
    /\ sel \subseteq quickPick.items
    /\ sel # quickPick.selectedItems
    /\ quickPick' = [quickPick EXCEPT !.selectedItems = sel,
                                      !.selectedDirectories =
                                          IF sel = {} THEN @ ELSE SetOf(sel)]
    /\ UNCHANGED << clock, mtime, connectedVault, savedDirectories, cacheFile,
                    notesCache, lastUpdateTime, selectedDirectories,
                    cmdLastUpdateTime, cacheLoaded, proc, hover, call,
                    faults, cmds, builds, decorationTimer, timers, runs, deactivate, openedWith >>

\* onDidAccept: an empty selection is warned about; otherwise the selection
\* is stored and the handler suspends in globalState.update.
Accept ==
    /\ quickPick.open
    /\ proc["accept"].pc = "idle"
    /\ Command
    /\ IF quickPick.selectedItems = {} THEN Becomes(Globals)
       ELSE Becomes(SetProc([Joined(Globals) EXCEPT !.savedDirectories =
                                 Saved(quickPick.selectedDirectories.items)],
                            "accept", [Started EXCEPT !.pc = "kv", !.site = "accept"]))
    /\ UNCHANGED << Env, faults >>

\* The user closes the QuickPick; a running accept handler keeps what it
\* closes over.
Dismiss ==
    /\ quickPick.open
    /\ proc["accept"].pc = "idle"
    /\ quickPick' = NoQuickPick
    /\ UNCHANGED << clock, mtime, connectedVault, savedDirectories, cacheFile,
                    notesCache, lastUpdateTime, selectedDirectories,
                    cmdLastUpdateTime, cacheLoaded, proc, hover, call,
                    faults, cmds, builds, decorationTimer, timers, runs, deactivate, openedWith >>

\* provideHover: without a vault nothing; otherwise the word is looked up in
\* the Map as it is now.
Hover(word) ==
    /\ connectedVault
    /\ proc["activate"].pc # "deactivated"
    /\ cmds < MaxCmds /\ cmds' = cmds + 1
    /\ hover' = findNoteMatch(word, notesCache, CASE_INSENSITIVE)
    /\ hover' # hover
    /\ UNCHANGED << clock, mtime, connectedVault, savedDirectories, cacheFile,
                    notesCache, lastUpdateTime, selectedDirectories,
                    cmdLastUpdateTime, cacheLoaded, quickPick, proc, call, faults, builds, decorationTimer, timers, runs, deactivate, openedWith >>

\* deactivate(): it logs and returns. It is called when the window closes,
\* here once the start-up block has ended and no handler is suspended; an
\* open QuickPick goes with the window, and the commands and the hover
\* provider are disposed.
Deactivate ==
    /\ proc["activate"].pc = "done"
    /\ InFlight = 0
    /\ proc' = [proc EXCEPT !["activate"].pc = "deactivated"]
    /\ quickPick' = NoQuickPick
    /\ UNCHANGED << clock, mtime, connectedVault, savedDirectories, cacheFile,
                    notesCache, lastUpdateTime, selectedDirectories,
                    cmdLastUpdateTime, cacheLoaded, hover, call, faults, cmds, builds, decorationTimer, timers, runs, deactivate, openedWith >>

Next ==
    \/ \E f \in Editable : Touch(f)
    \/ \E ok \in BOOLEAN : LoadAccess(ok)
    \/ \E ok \in BOOLEAN : LoadRead(ok)
    \/ \E p \in Procs, ok \in BOOLEAN : StaleStep(p, ok)
    \/ \E p \in Procs, ok \in BOOLEAN : ScanStep(p, ok)
    \/ \E p \in Procs, ok \in BOOLEAN : SaveMkdir(p, ok)
    \/ \E p \in Procs, ok \in BOOLEAN : SaveWrite(p, ok)
    \/ UpdateCmd
    \/ ConnectCmd
    \/ \E chosen \in BOOLEAN : ChooseVault(chosen)
    \/ \E p \in Procs, ok \in BOOLEAN : KvStep(p, ok)
    \/ PickCmd
    \/ \E p \in Procs, ok \in BOOLEAN : DirsStep(p, ok)
    \/ \E sel \in SUBSET ({NotesInRoot} \cup getRootDirectories(VaultTree, VaultPath)) :
           ChangeSelection(sel)
    \/ Accept
    \/ Dismiss
    \/ \E word \in HoverWords : Hover(word)
    \/ Deactivate

Spec == Init /\ [][Next]_vars

\* ----------------------------------------------------------------- startup
\* Start-up in every condition of the cache file (missing, not JSON, left by
\* an earlier session) and of the notes' modification times, with the "Pick
\* Directories" command and the hover as the user's only actions.
InitStartup ==
    \E saved \in InitSaved, times \in {0, 1} :
      \E file \in {NoFile, FileWith(GarbageText), EarlierCache(saved)} :
          Activated(TRUE, saved, file, times)

StartupProcs == {"activate", "pick"}

NextStartup ==
    \/ \E f \in Editable : Touch(f)
    \/ \E ok \in BOOLEAN : LoadAccess(ok)
    \/ \E ok \in BOOLEAN : LoadRead(ok)
    \/ \E p \in StartupProcs, ok \in BOOLEAN : StaleStep(p, ok)
    \/ \E p \in StartupProcs, ok \in BOOLEAN : ScanStep(p, ok)
    \/ \E p \in StartupProcs, ok \in BOOLEAN : SaveMkdir(p, ok)
    \/ \E p \in StartupProcs, ok \in BOOLEAN : SaveWrite(p, ok)
    \/ PickCmd
    \/ \E ok \in BOOLEAN : DirsStep("pick", ok)
    \/ Dismiss
    \/ \E word \in HoverWords : Hover(word)

SpecStartup == InitStartup /\ [][NextStartup]_vars

\* ----------------------------------------------- start-up during editing
\* Start-up with a connected vault while either note of D is edited in
\* Obsidian: the start-up block is the only handler.
EditedNotes == {AliasNotePath, DocsNotePath}

InitEdits == \E saved \in InitSaved : Activated(TRUE, saved, EarlierCache(saved), 1)

NextEdits ==
    \/ \E f \in EditedNotes : Touch(f)
    \/ \E ok \in BOOLEAN : LoadAccess(ok)
    \/ \E ok \in BOOLEAN : LoadRead(ok)
    \/ \E ok \in BOOLEAN : StaleStep("activate", ok)
    \/ \E ok \in BOOLEAN : ScanStep("activate", ok)
    \/ \E ok \in BOOLEAN : SaveMkdir("activate", ok)
    \/ \E ok \in BOOLEAN : SaveWrite("activate", ok)

SpecEdits == InitEdits /\ [][NextEdits]_vars

\* ------------------------------------------------------- the single file
\* src/extension.js as one file: lastUpdateTime, selectedDirectories,
\* notesCache and decorationTimer are variables of the module, which every
\* function reads and assigns directly.
Decorated == << decorationTimer, timers, runs >>
Outside == << clock, mtime, hover, call >>

\* deactivate() has been called; the host then disposes the subscriptions.
Deactivated == deactivate.pc # "idle"

\* A mutant of Rearm: the timeout is armed without clearing the pending one.
RearmWithoutClear(pending, timer, id) == pending \cup {id}

\* if (decorationTimer) clearTimeout(decorationTimer);
\* decorationTimer = setTimeout(..., 250): the timeouts pending afterwards.
Rearm(pending, timer, id) ==
    (IF timer # 0 THEN pending \ {timer} ELSE pending) \cup {id}

\* clearTimeout(decorationTimer) under "if (decorationTimer)".
Cleared(pending, timer) == IF timer # 0 THEN pending \ {timer} ELSE pending

\* updateDecorations() is called by `caller` ("timer" or "refresh").
updateDecorations(R, caller) ==
    [R EXCEPT !.byTimer = IF caller = "timer" /\ @ < 2 THEN @ + 1 ELSE @,
              !.byRefresh = IF caller = "refresh" /\ @ < 2 THEN @ + 1 ELSE @,
              !.late = IF Deactivated THEN @ \cup {caller} ELSE @]

\* The host reports an event to its listener, which debounces when `arms`.
Listener(arms) ==
    /\ ~Deactivated
    /\ runs.events < MaxEvents
    /\ LET id == runs.events + 1
       IN IF arms
          THEN /\ timers' = Rearm(timers, decorationTimer, id)
               /\ decorationTimer' = id
               /\ runs' = [runs EXCEPT !.events = id, !.armed = TRUE,
                                       !.byTimer = 0, !.byRefresh = 0]
          ELSE /\ runs' = [runs EXCEPT !.events = id]
               /\ UNCHANGED << decorationTimer, timers >>
    /\ UNCHANGED << Outside, connectedVault, savedDirectories, cacheFile, notesCache,
                    lastUpdateTime, selectedDirectories, cmdLastUpdateTime,
                    cacheLoaded, quickPick, proc, faults, cmds, builds,
                    deactivate, openedWith >>

\* onDidChangeConfiguration: only a change of enableWordUnderline debounces.
ConfigurationChanged(affectsConfiguration) == Listener(affectsConfiguration)

\* onDidChangeActiveTextEditor.
ActiveTextEditorChanged == Listener(TRUE)

\* onDidChangeTextDocument: only a change of the active editor's document debounces.
TextDocumentChanged(ofActiveEditor) == Listener(ofActiveEditor)

\* A pending timeout expires: its callback calls updateDecorations. The
\* module's decorationTimer keeps the expired timeout.
TimerFires ==
    /\ \E t \in timers : timers' = timers \ {t}
    /\ runs' = updateDecorations(runs, "timer")
    /\ UNCHANGED << Outside, connectedVault, savedDirectories, cacheFile, notesCache,
                    lastUpdateTime, selectedDirectories, cmdLastUpdateTime,
                    cacheLoaded, quickPick, proc, faults, cmds, builds,
                    decorationTimer, deactivate, openedWith >>

\* deactivate(): the decorations are removed, the pending timeout is
\* cleared, and saveCache is called without being awaited: it suspends in
\* getCachePath's mkdir, holding the lastUpdateTime of now.
DeactivateSingle ==
    /\ ~Deactivated
    /\ timers' = Cleared(timers, decorationTimer)
    /\ deactivate' = [pc |-> "mkdir", text |-> <<>>, lastUpdateTime |-> lastUpdateTime]
    /\ UNCHANGED << Outside, connectedVault, savedDirectories, cacheFile, notesCache,
                    lastUpdateTime, selectedDirectories, cmdLastUpdateTime,
                    cacheLoaded, quickPick, proc, faults, cmds, builds,
                    decorationTimer, runs, openedWith >>

\* deactivate's saveCache: getCachePath completes, then writeFile; a failure
\* is logged by the catch attached to the call.
DeactivateSave(ok) ==
    /\ deactivate.pc \in {"mkdir", "write"}
    /\ IO(ok)
    /\ IF ~ok THEN deactivate' = [deactivate EXCEPT !.pc = "done"] /\ UNCHANGED cacheFile
       ELSE IF deactivate.pc = "mkdir"
       THEN /\ deactivate' = [deactivate EXCEPT
                                 !.pc = "write",
                                 !.text = saveCache(notesCache, deactivate.lastUpdateTime)]
            /\ UNCHANGED cacheFile
       ELSE /\ deactivate' = [deactivate EXCEPT !.pc = "done"]
            /\ cacheFile' = FileWith(deactivate.text)
    /\ UNCHANGED << Outside, connectedVault, savedDirectories, notesCache,
                    lastUpdateTime, selectedDirectories, cmdLastUpdateTime,
                    cacheLoaded, quickPick, proc, cmds, builds,
                    Decorated, openedWith >>

\* A handler of the single file ends: the startup block, a command, or the
\* accept handler, whose QuickPick stays as it is.
EndSingle(G, p) ==
    SetProc(G, p, Ended(G.proc[p], IF p = "activate" THEN "done" ELSE "idle"))

\* loadVaultNotes(vaultPath) is called: it suspends in its first readdir.
CallUpdateSingle(G, p) ==
    SetProc(G, p, [G.proc[p] EXCEPT !.pc = "scan", !.idx = 1, !.notes = <<>>,
                                    !.latestModification = 0, !.result = "none",
                                    !.readAt = NotRead])

\* isVaultModified(vaultPath): a readdir or a stat completes. At the end the
\* latest modification is compared with the module's lastUpdateTime as it is
\* then; a failure is answered with true. The startup block and
\* updateNotesInformation(vaultPath, false) go on to scan when the answer is true.
StaleStepSingle(p, ok) ==
    /\ proc[p].pc = "stale"
    /\ IO(ok)
    /\ LET l == proc[p]
           op == Plan[l.idx]
           latest == IF op.op = "visit" THEN Max(l.latestModification, mtime[op.path])
                     ELSE l.latestModification
           nxt == Seek("stale", selectedDirectories, l.idx + 1)
       IN IF ok /\ nxt.at # "end"
          THEN Becomes(SetProc(Globals, p, [l EXCEPT !.idx = nxt.idx,
                                                     !.latestModification = latest]))
          ELSE IF ~ok \/ latest > lastUpdateTime
          THEN Becomes(CallUpdateSingle(Globals, p))
          ELSE Becomes(EndSingle(Globals, p))
    /\ UNCHANGED << Env, cmds >>

\* updateNotesInformation once loadVaultNotes has returned: the Map is
\* cleared and filled, the module's lastUpdateTime is assigned, and saveCache
\* is called with it.
InstallSingle(G, p, now) == [Install(G, p, now) EXCEPT !.lastUpdateTime = now]

\* loadVaultNotes: a readdir or the readFile of an included note completes,
\* and the scan runs on to the next note that the module's
\* selectedDirectories, as it is now, includes. A failure is rethrown
\* through updateNotesInformation to the handler, which ends.
ScanStepSingle(p, ok) ==
    /\ proc[p].pc = "scan"
    /\ IO(ok)
    /\ LET l == proc[p]
           op == Plan[l.idx]
           notes == IF op.op = "visit"
                    THEN Append(l.notes, NoteInfo(VaultPath, op.path, FileContent(op.path)))
                    ELSE l.notes
           nxt == Seek("load", selectedDirectories, l.idx + 1)
           G == SetProc(Globals, p, [l EXCEPT !.notes = notes])
       IN IF ~ok THEN Becomes(EndSingle(SetProc(Globals, p, [l EXCEPT !.result = "threw"]), p))
          ELSE IF nxt.at = "end" THEN Becomes(InstallSingle(G, p, clock))
          ELSE Becomes(SetProc(G, p, [G.proc[p] EXCEPT !.idx = nxt.idx]))
    /\ UNCHANGED << Env, cmds >>

\* updateNotesInformation returns (it returns nothing): the startup block
\* and the update command end, the accept handler calls saveCache with the
\* module's lastUpdateTime.
UpdateReturnsSingle(G, p) ==
    LET l == [G.proc[p] EXCEPT !.result = "returned", !.notes = <<>>, !.idx = 0,
                               !.newLastUpdateTime = 0, !.text = <<>>]
        G1 == SetProc(G, p, l)
    IN IF p = "accept" THEN CallSaveCache(G1, p, "mkdir2", G1.lastUpdateTime)
       ELSE EndSingle(G1, p)

\* saveCache: getCachePath completes and the text to write is made of the
\* Map's entries as they are now. A failed save inside updateNotesInformation
\* is logged there; a failed save of the accept handler ends the handler.
SaveMkdirSingle(p, ok) ==
    /\ proc[p].pc \in {"mkdir", "mkdir2"}
    /\ IO(ok)
    /\ LET l == proc[p]
           inner == l.pc = "mkdir"
           ts == IF inner THEN l.newLastUpdateTime ELSE l.lastUpdateTime
       IN IF ok
          THEN Becomes(SetProc(Globals, p,
                   [l EXCEPT !.pc = IF inner THEN "write" ELSE "write2",
                             !.text = saveCache(notesCache, ts)]))
          ELSE IF inner THEN Becomes(UpdateReturnsSingle(Globals, p))
          ELSE Becomes(EndSingle(Globals, p))
    /\ UNCHANGED << Env, cmds >>

\* saveCache: writeFile completes. After the save inside
\* updateNotesInformation, updateDecorations() is called at once; after its
\* own save the accept handler hides the QuickPick.
SaveWriteSingle(p, ok) ==
    /\ proc[p].pc \in {"write", "write2"}
    /\ IO(ok)
    /\ LET l == proc[p]
           inner == l.pc = "write"
           G == IF ok THEN [Globals EXCEPT !.cacheFile = FileWith(l.text)] ELSE Globals
       IN /\ IF inner THEN Becomes(UpdateReturnsSingle(G, p))
             ELSE IF ok THEN Becomes(EndSingle([G EXCEPT !.quickPick = NoQuickPick], p))
             ELSE Becomes(EndSingle(G, p))
          /\ runs' = IF inner /\ ok THEN updateDecorations(runs, "refresh") ELSE runs
    /\ UNCHANGED << Outside, selectedDirectories, cmds, decorationTimer, timers,
                    deactivate, openedWith >>

\* A command is run: the commands are disposed once deactivate() was called.
CommandSingle == Command /\ ~Deactivated

\* "Update Notes Information": updateNotesInformation(connectedVault, false)
\* suspends in the first readdir of isVaultModified.
UpdateCmdSingle ==
    /\ proc["update"].pc = "idle"
    /\ connectedVault
    /\ CommandSingle
    /\ Becomes(SetProc(Joined(Globals), "update",
                       [Started EXCEPT !.pc = "stale", !.site = "update", !.idx = 1]))
    /\ UNCHANGED << Env, faults >>

\* "Pick Directories": pickDirectories assigns the module's
\* selectedDirectories the saved selection, or the empty Set, and suspends
\* in getRootDirectories.
PickCmdSingle ==
    /\ ~quickPick.open /\ proc["pick"].pc = "idle" /\ proc["accept"].pc = "idle"
    /\ connectedVault
    /\ CommandSingle
    /\ selectedDirectories' =
           SetOf(IF savedDirectories.saved THEN savedDirectories.items ELSE {})
    /\ openedWith' = [selectedDirectories |-> selectedDirectories, accepted |-> FALSE]
    /\ Becomes(SetProc(Joined(Globals), "pick",
                       [Started EXCEPT !.pc = "dirs", !.site = "pickDirectories"]))
    /\ UNCHANGED << Outside, faults, Decorated, deactivate >>

\* pickDirectories: getRootDirectories completes and the QuickPick is shown
\* with the items of the module's selectedDirectories picked; a failure is
\* shown as an error.
DirsStepSingle(ok) ==
    /\ proc["pick"].pc = "dirs"
    /\ IO(ok)
    /\ LET items == {NotesInRoot} \cup getRootDirectories(VaultTree, VaultPath)
           shown == [open |-> TRUE, items |-> items,
                     selectedItems |-> items \cap selectedDirectories.items,
                     selectedDirectories |-> SetOf({}), lastUpdateTime |-> 0]
       IN IF ok THEN Becomes(EndSingle([Globals EXCEPT !.quickPick = shown], "pick"))
          ELSE Becomes(EndSingle(Globals, "pick"))
    /\ UNCHANGED << Env, cmds >>

\* onDidChangeSelection: an empty selection is warned about; any other is
\* assigned to the module's selectedDirectories.
ChangeSelectionSingle(sel) ==
    /\ quickPick.open
    /\ sel \subseteq quickPick.items
    /\ sel # quickPick.selectedItems
    /\ quickPick' = [quickPick EXCEPT !.selectedItems = sel]
    /\ selectedDirectories' = IF sel = {} THEN selectedDirectories ELSE SetOf(sel)
    /\ UNCHANGED << Outside, connectedVault, savedDirectories, cacheFile, notesCache,
                    lastUpdateTime, cmdLastUpdateTime, cacheLoaded, proc,
                    faults, cmds, builds, Decorated, deactivate, openedWith >>

\* onDidAccept: an empty selection is warned about; otherwise the module's
\* selectedDirectories is stored and the handler suspends in globalState.update.
AcceptSingle ==
    /\ quickPick.open
    /\ proc["accept"].pc = "idle"
    /\ Command
    /\ IF quickPick.selectedItems = {} THEN Becomes(Globals) /\ UNCHANGED openedWith
       ELSE /\ Becomes(SetProc([Joined(Globals) EXCEPT !.savedDirectories =
                                    Saved(selectedDirectories.items)],
                               "accept", [Started EXCEPT !.pc = "kv", !.site = "accept"]))
            /\ openedWith' = [openedWith EXCEPT !.accepted = TRUE]
    /\ UNCHANGED << Outside, selectedDirectories, faults, Decorated, deactivate >>

\* The accept handler's globalState.update completes:
\* updateNotesInformation(vaultPath, true) is called.
KvStepSingle(ok) ==
    /\ proc["accept"].pc = "kv"
    /\ IO(ok)
    /\ IF ok THEN Becomes(CallUpdateSingle(Globals, "accept"))
       ELSE Becomes(EndSingle(Globals, "accept"))
    /\ UNCHANGED << Env, cmds >>

\* The user closes the QuickPick.
DismissSingle ==
    /\ quickPick.open
    /\ proc["accept"].pc = "idle"
    /\ quickPick' = NoQuickPick
    /\ UNCHANGED << Outside, connectedVault, savedDirectories, cacheFile, notesCache,
                    lastUpdateTime, selectedDirectories, cmdLastUpdateTime,
                    cacheLoaded, proc, faults, cmds, builds, Decorated,
                    deactivate, openedWith >>

\* activate() has returned with a vault connected: the listeners and the
\* commands are registered, the saved selection is restored, and the startup
\* block is suspended in loadCache.
InitSingle ==
    \E saved \in InitSaved : Activated(TRUE, saved, EarlierCache(saved), 1)

SingleProcs == {"activate", "update", "accept"}

\* The startup block, the update command and the picker.
NextSingle ==
    \/ \E f \in Editable : Touch(f)
    \/ \E ok \in BOOLEAN : LoadAccess(ok)
    \/ \E ok \in BOOLEAN : LoadRead(ok)
    \/ \E p \in SingleProcs, ok \in BOOLEAN : StaleStepSingle(p, ok)
    \/ \E p \in SingleProcs, ok \in BOOLEAN : ScanStepSingle(p, ok)
    \/ \E p \in SingleProcs, ok \in BOOLEAN : SaveMkdirSingle(p, ok)
    \/ \E p \in SingleProcs, ok \in BOOLEAN : SaveWriteSingle(p, ok)
    \/ UpdateCmdSingle
    \/ PickCmdSingle
    \/ \E ok \in BOOLEAN : DirsStepSingle(ok)
    \/ \E sel \in SUBSET ({NotesInRoot} \cup getRootDirectories(VaultTree, VaultPath)) :
           ChangeSelectionSingle(sel)
    \/ AcceptSingle
    \/ \E ok \in BOOLEAN : KvStepSingle(ok)
    \/ DismissSingle

SpecSingle == InitSingle /\ [][NextSingle]_vars

\* The startup block and the update command, with the events that the
\* listeners debounce, the timeouts, and deactivate().
DecorationProcs == {"activate", "update"}

NextDecorations ==
    \/ \E ok \in BOOLEAN : LoadAccess(ok)
    \/ \E ok \in BOOLEAN : LoadRead(ok)
    \/ \E p \in DecorationProcs, ok \in BOOLEAN : StaleStepSingle(p, ok)
    \/ \E p \in DecorationProcs, ok \in BOOLEAN : ScanStepSingle(p, ok)
    \/ \E p \in DecorationProcs, ok \in BOOLEAN : SaveMkdirSingle(p, ok)
    \/ \E p \in DecorationProcs, ok \in BOOLEAN : SaveWriteSingle(p, ok)
    \/ UpdateCmdSingle
    \/ \E affectsConfiguration \in BOOLEAN : ConfigurationChanged(affectsConfiguration)
    \/ ActiveTextEditorChanged
    \/ \E ofActiveEditor \in BOOLEAN : TextDocumentChanged(ofActiveEditor)
    \/ TimerFires
    \/ DeactivateSingle
    \/ \E ok \in BOOLEAN : DeactivateSave(ok)

SpecDecorations == InitSingle /\ [][NextDecorations]_vars

\* ------------------------------------------------- saveCache then loadCache
\* The indexes saved: up to two records, in either order, with alias lists
\* of no, one and two aliases.
SampleKeys == {RootNoteName, PathRelative(VaultPath, DocsNotePath)}
SampleAliases == {<<>>, <<RootNoteAlias>>, <<RootNoteAlias, AliasNoteAlias>>}
SampleEntries ==
    {[key |-> k, value |-> [fullPath |-> PathJoin(VaultPath, k), aliases |-> a,
                            uri |-> createObsidianUri(VaultPath, k)]] :
         k \in SampleKeys, a \in SampleAliases}
SampleIndexes ==
    {<<>>} \cup {<<e>> : e \in SampleEntries}
    \cup {<<p[1], p[2]>> : p \in {q \in SampleEntries \X SampleEntries : q[1].key # q[2].key}}

InitCache ==
    /\ clock = 1
    /\ mtime = [f \in NoteFiles |-> 1]
    /\ connectedVault = TRUE
    /\ savedDirectories = NotSaved
    /\ cacheFile = NoFile
    /\ notesCache \in SampleIndexes
    /\ lastUpdateTime \in 0..MaxClock
    /\ selectedDirectories = SetOf({NotesInRoot})
    /\ cmdLastUpdateTime = [c \in Commands |-> 0]
    /\ cacheLoaded = NotReturned
    /\ quickPick = NoQuickPick
    /\ proc = [p \in Procs |-> Idle]
    /\ hover = NoHover
    /\ call = NoCall
    /\ faults = 0
    /\ cmds = 0
    /\ openedWith = NotOpened
    /\ deactivate = NotDeactivated
    /\ runs = NoRuns
    /\ timers = {}
    /\ decorationTimer = 0
    /\ builds = {}

\* saveCache(context, notesCache, lastUpdateTime) runs to its end.
SaveCacheCall ==
    /\ ~cacheFile.exists
    /\ cacheFile' = FileWith(saveCache(notesCache, lastUpdateTime))
    /\ UNCHANGED << clock, mtime, connectedVault, savedDirectories, notesCache,
                    lastUpdateTime, selectedDirectories, cmdLastUpdateTime,
                    cacheLoaded, quickPick, proc, hover, call,
                    faults, cmds, builds, decorationTimer, timers, runs, deactivate, openedWith >>

\* loadCache(context, new Map(), 0) runs to its end on the file saved.
LoadCacheCall ==
    /\ cacheFile.exists
    /\ ~cacheLoaded.returned
    /\ LET res == loadCache(cacheFile, TRUE, <<>>, 0)
       IN cacheLoaded' = [returned |-> TRUE, notesCache |-> res.notesCache,
                          lastUpdateTime |-> res.lastUpdateTime,
                          cacheLoaded |-> res.cacheLoaded]
    /\ UNCHANGED << clock, mtime, connectedVault, savedDirectories, cacheFile,
                    notesCache, lastUpdateTime, selectedDirectories,
                    cmdLastUpdateTime, quickPick, proc, hover, call,
                    faults, cmds, builds, decorationTimer, timers, runs, deactivate, openedWith >>

NextCache == SaveCacheCall \/ LoadCacheCall

SpecCache == InitCache /\ [][NextCache]_vars

\* ------------------------------------------------- the filter of loadVaultNotes
\* A vault with a note in the root, a note one level down and a note two
\* levels down.
SubDirName == <<"S">>
NestedNoteName == <<"N", ".", "m", "d">>
SubDirPath == PathJoin(DocsDirPath, SubDirName)
NestedNotePath == PathJoin(SubDirPath, NestedNoteName)
FilterTree ==
    << [path |-> VaultPath,
        entries |-> << DirEntry(DocsDirName, TRUE), DirEntry(RootNoteName, FALSE) >>],
       [path |-> DocsDirPath,
        entries |-> << DirEntry(DocsNoteName, FALSE), DirEntry(SubDirName, TRUE) >>],
       [path |-> SubDirPath, entries |-> << DirEntry(NestedNoteName, FALSE) >>] >>
FilterPlan == scanVaultDirectory(FilterTree, VaultPath)

\* The filters tried: every set of the two sentinels, the two directory
\* names and a name that no directory has.
FilterLabels == {AllDirs, NotesInRoot, DocsDirName, SubDirName, <<"X">>}

InitFilter ==
    /\ clock = 1
    /\ mtime = [f \in NoteFiles |-> 1]
    /\ connectedVault = TRUE
    /\ savedDirectories = NotSaved
    /\ cacheFile = NoFile
    /\ notesCache = <<>>
    /\ lastUpdateTime = 0
    /\ selectedDirectories \in {SetOf(items) : items \in SUBSET FilterLabels}
    /\ cmdLastUpdateTime = [c \in Commands |-> 0]
    /\ cacheLoaded = NotReturned
    /\ quickPick = NoQuickPick
    /\ proc = [p \in Procs |->
                 IF p = "update"
                 THEN [Idle EXCEPT !.pc = "scan", !.idx = 1,
                                   !.selectedDirectories = selectedDirectories]
                 ELSE Idle]
    /\ hover = NoHover
    /\ call = NoCall
    /\ faults = 0
    /\ cmds = 0
    /\ openedWith = NotOpened
    /\ deactivate = NotDeactivated
    /\ runs = NoRuns
    /\ timers = {}
    /\ decorationTimer = 0
    /\ builds = {}

\* loadVaultNotes over FilterTree: the next readdir, or the callback on the
\* next note.
FilterVisit ==
    /\ proc["update"].pc = "scan"
    /\ proc["update"].idx <= Len(FilterPlan)
    /\ LET l == proc["update"]
           op == FilterPlan[l.idx]
           included == op.op = "visit" /\ IncludesNote(l.selectedDirectories, VaultPath, op.path)
       IN proc' = [proc EXCEPT !["update"] =
                     [l EXCEPT !.idx = l.idx + 1,
                               !.notes = IF included
                                         THEN Append(l.notes, NoteInfo(VaultPath, op.path,
                                                                       FileContent(op.path)))
                                         ELSE l.notes]]
    /\ UNCHANGED << clock, mtime, connectedVault, savedDirectories, cacheFile,
                    notesCache, lastUpdateTime, selectedDirectories,
                    cmdLastUpdateTime, cacheLoaded, quickPick, hover, call,
                    faults, cmds, builds, decorationTimer, timers, runs, deactivate, openedWith >>

NextFilter == FilterVisit

SpecFilter == InitFilter /\ [][NextFilter]_vars

\* ------------------------------------------- functions called on their own
\* A call that has not returned yet.
CallOf(fn, args) == [fn |-> fn, args |-> args, done |-> FALSE, result |-> <<>>]

\* A vault without notes: a hidden directory with a note in it and a text file.
EmptyVaultTree ==
    << [path |-> VaultPath,
        entries |-> << DirEntry(HiddenDirName, TRUE), DirEntry(TextFileName, FALSE) >>],
       [path |-> HiddenDirPath, entries |-> << DirEntry(HiddenNoteName, FALSE) >> ] >>

\* isVaultModified(vaultPath, lastUpdateTime) run to its end over `tree`, the
\* notes modified at `mtimes`; failAt is the readdir or stat that fails (the
\* place in the scan's order), 0 when none does.
RECURSIVE LatestModification(_, _, _, _)
LatestModification(plan, mtimes, i, latestModification) ==
    IF i > Len(plan) THEN latestModification
    ELSE LatestModification(plan, mtimes, i + 1,
             IF plan[i].op = "visit" THEN Max(latestModification, mtimes[plan[i].path])
             ELSE latestModification)

\* A mutant of isVaultModified: a note modified at the last-build time counts.
isVaultModifiedAtOrAfter(tree, vaultPath, mtimes, lut, failAt) ==
    LET plan == scanVaultDirectory(tree, vaultPath)
    IN IF failAt \in 1..Len(plan) THEN TRUE
       ELSE LatestModification(plan, mtimes, 1, 0) >= lut

isVaultModified(tree, vaultPath, mtimes, lut, failAt) ==
    LET plan == scanVaultDirectory(tree, vaultPath)
    IN IF failAt \in 1..Len(plan) THEN TRUE
       ELSE LatestModification(plan, mtimes, 1, 0) > lut

\* The calls of isVaultModified examined.
StaleCalls ==
    {CallOf("isVaultModified",
            [tree |-> VaultTree, mtimes |-> m, lastUpdateTime |-> t, failAt |-> k]) :
         m \in [NoteFiles -> 0..MaxClock], t \in 0..MaxClock, k \in 0..Len(Plan)}
    \cup {CallOf("isVaultModified",
                 [tree |-> EmptyVaultTree, mtimes |-> <<>>, lastUpdateTime |-> t,
                  failAt |-> k]) : t \in 0..MaxClock, k \in 0..1}

StaleCall ==
    /\ call.fn = "isVaultModified" /\ ~call.done
    /\ call' = [call EXCEPT !.done = TRUE,
                            !.result = isVaultModified(call.args.tree, VaultPath,
                                           call.args.mtimes, call.args.lastUpdateTime,
                                           call.args.failAt)]
    /\ UNCHANGED << clock, mtime, connectedVault, savedDirectories, cacheFile,
                    notesCache, lastUpdateTime, selectedDirectories,
                    cmdLastUpdateTime, cacheLoaded, quickPick, proc, hover,
                    faults, cmds, builds, decorationTimer, timers, runs, deactivate, openedWith >>

\* The trees scanned. The root has any of: the hidden directory .o, the
\* directory D, the note W.md, the text file t.txt, the hidden file .h.md and
\* L.md, which is neither a regular file nor a directory. D has any of: the
\* note Foo.md, the directory S and a hidden directory .o. S has the note
\* N.md, and each hidden directory has the note h.md.
ScanTree(inRoot, inDocs) ==
    LET hidden == <<".", "h", ".", "m", "d">>
        link == <<"L", ".", "m", "d">>
        sub == <<"S">>
        nested == <<"N", ".", "m", "d">>
        kept(entries, names) == SelectSeq(entries, LAMBDA e : e.name \in names)
        dirs == << [path |-> VaultPath,
                    entries |-> kept(<< DirEntry(HiddenDirName, TRUE),
                                        DirEntry(DocsDirName, TRUE),
                                        DirEntry(RootNoteName, FALSE),
                                        DirEntry(TextFileName, FALSE),
                                        DirEntry(hidden, FALSE),
                                        [name |-> link, isDirectory |-> FALSE,
                                         isFile |-> FALSE] >>, inRoot)],
                   [path |-> HiddenDirPath, entries |-> << DirEntry(HiddenNoteName, FALSE) >>],
                   [path |-> DocsDirPath,
                    entries |-> kept(<< DirEntry(DocsNoteName, FALSE), DirEntry(sub, TRUE),
                                        DirEntry(HiddenDirName, TRUE) >>, inDocs)],
                   [path |-> PathJoin(DocsDirPath, sub),
                    entries |-> << DirEntry(nested, FALSE) >>],
                   [path |-> PathJoin(DocsDirPath, HiddenDirName),
                    entries |-> << DirEntry(HiddenNoteName, FALSE) >>] >>
        listed(d) == d.path = VaultPath
                     \/ \E q \in 1..Len(dirs) : \E e \in 1..Len(dirs[q].entries) :
                           /\ dirs[q].entries[e].isDirectory
                           /\ PathJoin(dirs[q].path, dirs[q].entries[e].name) = d.path
                           /\ (dirs[q].path = VaultPath \/ DocsDirName \in inRoot)
    IN SelectSeq(dirs, listed)

\* The calls of scanVaultDirectory examined.
ScanCalls ==
    {CallOf("scanVaultDirectory", [tree |-> ScanTree(r[1], r[2])]) :
        r \in {q \in (SUBSET {HiddenDirName, DocsDirName, RootNoteName, TextFileName,
                              <<".", "h", ".", "m", "d">>, <<"L", ".", "m", "d">>})
                     \X (SUBSET {DocsNoteName, <<"S">>, HiddenDirName}) :
                   DocsDirName \in q[1] \/ q[2] = {}}}

\* scanVaultDirectory(vaultPath, callback) run to its end: the directories it
\* has listed and the files it has called back for, in order.
ScanCall ==
    /\ call.fn = "scanVaultDirectory" /\ ~call.done
    /\ call' = [call EXCEPT !.done = TRUE,
                            !.result = scanVaultDirectory(call.args.tree, VaultPath)]
    /\ UNCHANGED << clock, mtime, connectedVault, savedDirectories, cacheFile,
                    notesCache, lastUpdateTime, selectedDirectories,
                    cmdLastUpdateTime, cacheLoaded, quickPick, proc, hover,
                    faults, cmds, builds, decorationTimer, timers, runs, deactivate, openedWith >>

\* loadVaultNotes(vaultPath, selectedDirectories) over a tree when no read
\* fails: the records its callback pushes, in the order of the scan.
loadVaultNotes(tree, vaultPath, filter) ==
    LET plan == scanVaultDirectory(tree, vaultPath)
        RECURSIVE pushed(_)
        pushed(i) ==
            IF i > Len(plan) THEN <<>>
            ELSE IF plan[i].op = "visit" /\ IncludesNote(filter, vaultPath, plan[i].path)
            THEN <<NoteInfo(vaultPath, plan[i].path, FileContent(plan[i].path))>>
                 \o pushed(i + 1)
            ELSE pushed(i + 1)
    IN pushed(1)

\* The vaults whose top-level directories are named D, All and Notes In
\* Root, any of them: each directory holds the note Foo.md, the root W.md.
TopLevelNames == <<DocsDirName, AllDirs, NotesInRoot>>
NamedTree(names) ==
    LET dirs == SelectSeq(TopLevelNames, LAMBDA n : n \in names)
    IN << [path |-> VaultPath,
           entries |-> [i \in 1..Len(dirs) |-> DirEntry(dirs[i], TRUE)]
                       \o << DirEntry(RootNoteName, FALSE) >>] >>
       \o [i \in 1..Len(dirs) |->
             [path |-> PathJoin(VaultPath, dirs[i]),
              entries |-> << DirEntry(DocsNoteName, FALSE) >>]]

\* The selections a user can build from the directory entries of the picker:
\* the non-empty sets of the vault's top-level directories.
LoadCalls ==
    {CallOf("loadVaultNotes", [tree |-> NamedTree(c[1]), selectedDirectories |-> SetOf(c[2])]) :
        c \in {q \in (SUBSET Range(TopLevelNames)) \X (SUBSET Range(TopLevelNames)) :
                 q[2] # {} /\ q[2] \subseteq getRootDirectories(NamedTree(q[1]), VaultPath)}}

LoadCall ==
    /\ call.fn = "loadVaultNotes" /\ ~call.done
    /\ call' = [call EXCEPT !.done = TRUE,
                            !.result = loadVaultNotes(call.args.tree, VaultPath,
                                                      call.args.selectedDirectories)]
    /\ UNCHANGED << clock, mtime, connectedVault, savedDirectories, cacheFile,
                    notesCache, lastUpdateTime, selectedDirectories,
                    cmdLastUpdateTime, cacheLoaded, quickPick, proc, hover,
                    faults, cmds, builds, decorationTimer, timers, runs, deactivate, openedWith >>

\* The contents whose aliases are extracted: a first line, up to three lines
\* and then a closing line, a note body or nothing, each line ended by a line
\* break. The lines are the delimiter, four hyphens, the key, the key after a
\* letter, items (one with spaces around its value, one with three hyphens in
\* it) and other text, with and without three hyphens in it.
ContentLines ==
    LET item(v) == ItemPrefix \o v
    IN [first |-> {Dashes, Dashes \o <<"-">>, <<"t">>},
        inner |-> {AliasesKey, <<"x">> \o AliasesKey, item(<<"a">>),
                   item(<<" ", "b", " ">>), item(<<"c", "-", "-", "-">>),
                   <<"t">>, <<"t", "-", "-", "-">>},
        last |-> {<<Dashes>>, <<Dashes, <<"t">>>>, <<>>}]

ExtractCalls ==
    {CallOf("extractAliases",
            [content |-> Concat([i \in 1..Len(ls) |-> ls[i] \o NL])]) :
        ls \in UNION {{<<f>> \o m \o l : f \in ContentLines.first,
                                         m \in [1..n -> ContentLines.inner],
                                         l \in ContentLines.last} : n \in 0..MaxInnerLines}}

\* extractAliases on content that readFile has returned.
ExtractCall ==
    /\ call.fn = "extractAliases" /\ ~call.done
    /\ call' = [call EXCEPT !.done = TRUE,
                            !.result = extractAliases(call.args.content)]
    /\ UNCHANGED << clock, mtime, connectedVault, savedDirectories, cacheFile,
                    notesCache, lastUpdateTime, selectedDirectories,
                    cmdLastUpdateTime, cacheLoaded, quickPick, proc, hover,
                    faults, cmds, builds, decorationTimer, timers, runs, deactivate, openedWith >>

\* Array.prototype.join("\n").
RECURSIVE JoinLines(_)
JoinLines(ls) ==
    IF ls = <<>> THEN <<>>
    ELSE IF Len(ls) = 1 THEN ls[1]
    ELSE ls[1] \o NL \o JoinLines(Tail(ls))

\* The loop of getNoteContent from line i on. collectingContent is left out:
\* it is read only where inFrontmatter is false, in a disjunction with
\* !inFrontmatter.
RECURSIVE CollectContent(_, _, _, _)
CollectContent(lines, i, inFrontmatter, contentBuffer) ==
    IF i > Len(lines) THEN contentBuffer
    ELSE LET line == lines[i]
         IN IF Trim(line) = Dashes
            THEN CollectContent(lines, i + 1, ~inFrontmatter, contentBuffer)
            ELSE IF inFrontmatter
            THEN CollectContent(lines, i + 1, inFrontmatter, contentBuffer)
            ELSE IF StartsWith(line, <<"#", " ">>) THEN contentBuffer
            ELSE CollectContent(lines, i + 1, inFrontmatter,
                                Append(contentBuffer, line))

\* getNoteContent(filePath) where readFile yields `content`, or rejects when
\* the file is not readable.
getNoteContent(content, readable) ==
    IF ~readable THEN <<>>
    ELSE TrimEnd(JoinLines(CollectContent(Split(content, "\n"), 1, FALSE, <<>>)))

\* The contents whose text is fetched: up to MaxContentLines lines joined by
\* line breaks. A line is the delimiter, the delimiter indented and ended by
\* a carriage return, a header, a hash without a space, text ended by a
\* space, text, or empty.
NoteLines ==
    {Dashes, <<" ">> \o Dashes \o <<"\r">>, <<"#", " ", "H">>, <<"#", "H">>,
     <<"t", " ">>, <<"u">>, <<>>}

GetContentCalls ==
    {CallOf("getNoteContent", [content |-> JoinLines(ls), readable |-> TRUE]) :
        ls \in UNION {[1..n -> NoteLines] : n \in 1..MaxContentLines}}
    \cup {CallOf("getNoteContent", [content |-> l, readable |-> FALSE]) :
            l \in NoteLines}

GetContentCall ==
    /\ call.fn = "getNoteContent" /\ ~call.done
    /\ call' = [call EXCEPT !.done = TRUE,
                            !.result = getNoteContent(call.args.content,
                                                      call.args.readable)]
    /\ UNCHANGED << clock, mtime, connectedVault, savedDirectories, cacheFile,
                    notesCache, lastUpdateTime, selectedDirectories,
                    cmdLastUpdateTime, cacheLoaded, quickPick, proc, hover,
                    faults, cmds, builds, decorationTimer, timers, runs, deactivate, openedWith >>

\* updateNotesInformation(vaultPath, force, context, notesCache,
\* lastUpdateTime, selectedDirectories) run to its end on its own over
\* VaultTree, the notes modified at `mtimes`, Date.now() being `now` and `file`
\* the cache file; `fail` is the awaited operation that fails: the staleness
\* scan ("stale"), the scan of loadVaultNotes ("scan"), the save ("save") or
\* none. It returns or throws; `scans` are the scans it has made, `shown` the
\* message it has shown, and the Map, the timestamp it hands back and the
\* cache file are as it leaves them.
updateNotesInformation(vaultPath, force, cache, lut, filter, mtimes, now, file, fail) ==
    LET left(outcome, scans, shown) ==
            [outcome |-> outcome, scans |-> scans, shown |-> shown,
             notesCache |-> cache, lastUpdateTime |-> lut, cacheFile |-> file]
        needsRefresh == isVaultModified(VaultTree, vaultPath, mtimes, lut,
                                        IF fail = "stale" THEN 1 ELSE 0)
        checked == IF force THEN <<>> ELSE <<"stale">>
        installed == InstallNotes(vaultPath, NotesFrom(filter, 1))
    IN IF vaultPath = <<>> THEN left("returned", <<>>, "warning")
       ELSE IF ~force /\ ~needsRefresh THEN left("returned", checked, "up to date")
       ELSE IF fail = "scan" \/ filter.kind # "Set"
       THEN left("threw", Append(checked, "load"), "error")
       ELSE [outcome |-> "returned", scans |-> Append(checked, "load"),
             shown |-> "updated", notesCache |-> installed, lastUpdateTime |-> now,
             cacheFile |-> IF fail = "save" THEN file
                           ELSE FileWith(saveCache(installed, now))]

\* The calls of updateNotesInformation examined: with and without a vault
\* path, forced or not, over an empty Map or the index of D, under the empty
\* selection, "Notes In Root", D, "All" and D as an Array.
UpdateCalls ==
    {CallOf("updateNotesInformation",
            [vaultPath |-> a[1], force |-> a[2], notesCache |-> a[3],
             lastUpdateTime |-> a[4], selectedDirectories |-> a[5], mtimes |-> a[6],
             now |-> MaxClock + 1,
             cacheFile |-> IF a[7] THEN FileWith(saveCache(a[3], a[4])) ELSE NoFile,
             fail |-> a[8]]) :
        a \in {<<>>, VaultPath} \X BOOLEAN \X {<<>>, BuildIndex(SetOf({DocsDirName}))}
              \X (0..MaxClock)
              \X {SetOf({}), SetOf({NotesInRoot}), SetOf({DocsDirName}),
                  SetOf({AllDirs}), ArrayOf({DocsDirName})}
              \X [NoteFiles -> 1..MaxClock] \X BOOLEAN
              \X {"none", "stale", "scan", "save"}}

UpdateCall ==
    /\ call.fn = "updateNotesInformation" /\ ~call.done
    /\ call' = [call EXCEPT !.done = TRUE,
                            !.result = updateNotesInformation(
                                call.args.vaultPath, call.args.force, call.args.notesCache,
                                call.args.lastUpdateTime, call.args.selectedDirectories,
                                call.args.mtimes, call.args.now, call.args.cacheFile,
                                call.args.fail)]
    /\ UNCHANGED << clock, mtime, connectedVault, savedDirectories, cacheFile,
                    notesCache, lastUpdateTime, selectedDirectories,
                    cmdLastUpdateTime, cacheLoaded, quickPick, proc, hover,
                    faults, cmds, builds, decorationTimer, timers, runs, deactivate, openedWith >>

\* The records of the indexes searched: Foo.md in D without aliases, Bar.md
\* declaring FOO and foo, W.md declaring foo!, and Foo.md in the root
\* declaring foo.
SearchEntries ==
    {[key |-> k[1], value |-> [fullPath |-> PathJoin(VaultPath, k[1]), aliases |-> k[2],
                               uri |-> createObsidianUri(VaultPath, k[1])]] :
        k \in {<<PathRelative(VaultPath, DocsNotePath), <<>> >>,
               <<AliasNoteName, << <<"F", "O", "O">>, <<"f", "o", "o">> >> >>,
               <<RootNoteName, << <<"f", "o", "o", "!">> >> >>,
               <<DocsNoteName, << <<"f", "o", "o">> >> >>}}

\* The indexes searched: up to two of the records, in every order.
SearchIndexes ==
    {<<>>} \cup {<<e>> : e \in SearchEntries}
    \cup {<<p[1], p[2]>> : p \in {q \in SearchEntries \X SearchEntries : q[1] # q[2]}}

\* The words searched for.
SearchWords ==
    {<<"f","o","o">>, <<"F","o","o">>, <<"f","o","o","!">>, <<"f","o","o",".">>,
     <<"f","o","o",")">>, <<"F","O","O","!",")">>, <<"x","f","o","o">>, <<"b","a","r">>}

\* The calls of findExactMatch and of findNoteMatch examined.
SearchCalls ==
    {CallOf("findExactMatch",
            [searchWord |-> w, caseInsensitive |-> ci, applyNormalization |-> n,
             notesCache |-> m]) :
         w \in SearchWords, ci \in BOOLEAN, n \in BOOLEAN, m \in SearchIndexes}
    \cup {CallOf("findNoteMatch", [word |-> w, caseInsensitive |-> ci, notesCache |-> m]) :
              w \in SearchWords, ci \in BOOLEAN, m \in SearchIndexes}

ExactMatchCall ==
    /\ call.fn = "findExactMatch" /\ ~call.done
    /\ call' = [call EXCEPT !.done = TRUE,
                            !.result = findExactMatch(call.args.searchWord,
                                           call.args.caseInsensitive,
                                           call.args.applyNormalization,
                                           call.args.notesCache)]
    /\ UNCHANGED << clock, mtime, connectedVault, savedDirectories, cacheFile,
                    notesCache, lastUpdateTime, selectedDirectories,
                    cmdLastUpdateTime, cacheLoaded, quickPick, proc, hover,
                    faults, cmds, builds, decorationTimer, timers, runs, deactivate, openedWith >>

NoteMatchCall ==
    /\ call.fn = "findNoteMatch" /\ ~call.done
    /\ call' = [call EXCEPT !.done = TRUE,
                            !.result = findNoteMatch(call.args.word, call.args.notesCache,
                                                     call.args.caseInsensitive)]
    /\ UNCHANGED << clock, mtime, connectedVault, savedDirectories, cacheFile,
                    notesCache, lastUpdateTime, selectedDirectories,
                    cmdLastUpdateTime, cacheLoaded, quickPick, proc, hover,
                    faults, cmds, builds, decorationTimer, timers, runs, deactivate, openedWith >>

InitCalls ==
    /\ clock = 1
    /\ mtime = [f \in NoteFiles |-> 1]
    /\ connectedVault = TRUE
    /\ savedDirectories = NotSaved
    /\ cacheFile = NoFile
    /\ notesCache = <<>>
    /\ lastUpdateTime = 0
    /\ selectedDirectories = SetOf({NotesInRoot})
    /\ cmdLastUpdateTime = [c \in Commands |-> 0]
    /\ cacheLoaded = NotReturned
    /\ quickPick = NoQuickPick
    /\ proc = [p \in Procs |-> Idle]
    /\ hover = NoHover
    /\ call \in StaleCalls \cup SearchCalls \cup ScanCalls \cup ExtractCalls
               \cup UpdateCalls \cup GetContentCalls \cup LoadCalls
    /\ faults = 0
    /\ cmds = 0
    /\ openedWith = NotOpened
    /\ deactivate = NotDeactivated
    /\ runs = NoRuns
    /\ timers = {}
    /\ decorationTimer = 0
    /\ builds = {}

NextCalls ==
    \/ StaleCall
    \/ ExactMatchCall
    \/ NoteMatchCall
    \/ ScanCall
    \/ ExtractCall
    \/ UpdateCall
    \/ GetContentCall
    \/ LoadCall

SpecCalls == InitCalls /\ [][NextCalls]_vars

\* ------------------------------------------------------------------ claims
RefreshPcs == {"scan", "mkdir", "write"}

\* The handler p takes a step of its refresh: it calls updateNotesInformation,
\* or it resumes inside it.
RefreshStep(p) ==
    /\ proc'[p] # [proc[p] EXCEPT !.alone = proc'[p].alone]
    /\ proc[p].pc \in RefreshPcs \/ proc'[p].pc = "scan"

\* The refresh of p installs what it has scanned.
InstallStep(p) == proc[p].pc = "scan" /\ proc'[p].pc = "mkdir"

\* The refresh of p fails: its scan ends without an install.
FailStep(p) == proc[p].pc = "scan" /\ proc'[p].pc \notin {"scan", "mkdir"}

\* The refresh of p returns to its caller.
ReturnStep(p) == proc[p].pc \in {"mkdir", "write"} /\ proc'[p].pc \notin {"mkdir", "write"}

\* The copy of lastUpdateTime that the caller of p's refresh assigns the
\* returned timestamp to, in the state (lut, cmdLut, qp, pr).
CallerTimestamp(p, lut, cmdLut, qp, pr) ==
    CASE p = "activate" -> lut
      [] p = "update" -> cmdLut["update"]
      [] p = "connect" /\ pr[p].site = "connect" -> cmdLut["connect"]
      [] p = "accept" -> qp.lastUpdateTime
      [] OTHER -> pr[p].lastUpdateTime

\* C1: a refresh whose scan fails (a readdir or a note read throws) changes
\* nothing: from the call to the failure the Map, every copy of the last-build
\* timestamp and the cache file stay as they were, and the failure ends the
\* handler in its catch with the error (result "threw").
C1_FailedRefreshChangesNothing ==
    [][\A p \in Procs :
          (RefreshStep(p) /\ ~InstallStep(p)
             /\ (proc[p].pc = "scan" \/ proc'[p].pc = "scan"))
          => /\ notesCache' = notesCache
             /\ lastUpdateTime' = lastUpdateTime
             /\ cmdLastUpdateTime' = cmdLastUpdateTime
             /\ cacheFile' = cacheFile
             /\ (FailStep(p) => (proc'[p].result = "threw" /\ ~Running(proc'[p])))]_vars

\* C1 witness: the accept handler's refresh has failed on an I/O error while
\* the Map, the timestamp and the cache file of an earlier build are in place.
C1_Witness ==
    /\ faults = 1
    /\ proc["accept"].result = "threw"
    /\ notesCache = BuildIndex(SetOf({DocsDirName}))
    /\ lastUpdateTime = 1
    /\ cacheFile = FileWith(saveCache(notesCache, 1))

\* C2: every step of a refresh leaves the Map as it was, or is the one step
\* that installs the complete result of the scan under the refresh's filter;
\* a reader, which runs between two steps, finds the complete index of before
\* or the complete new one.
C2_ReaderSeesCompleteIndex ==
    [][\A p \in Procs :
          RefreshStep(p)
          => \/ notesCache' = notesCache
             \/ InstallStep(p) /\ notesCache' = BuildIndex(proc[p].selectedDirectories)]_vars

\* C2 witness: a refresh is suspended in its scan with one of two notes read,
\* the Map holds the complete index of before, and the hover has found a note.
C2_Witness ==
    /\ \E p \in Procs : proc[p].pc = "scan" /\ Len(proc[p].notes) = 1
    /\ notesCache = BuildIndex(SetOf({DocsDirName}))
    /\ Len(notesCache) = 2
    /\ hover.type = "filename"

\* C3: while a refresh that ran alone is suspended after its install, the
\* last-build timestamp of its caller is the timestamp of that build.
C3_TimestampInstalledWithRecords ==
    \A p \in Procs :
        (proc[p].pc \in {"mkdir", "write"} /\ proc[p].alone)
        => CallerTimestamp(p, lastUpdateTime, cmdLastUpdateTime, quickPick, proc)
               = proc[p].newLastUpdateTime

\* The disconnect command completes, its save written, no other handler
\* having run beside it.
DisconnectCompletes ==
    /\ proc["connect"].site = "disconnect"
    /\ proc["connect"].pc = "write2"
    /\ proc["connect"].alone
    /\ proc'["connect"].pc = "idle"
    /\ cacheFile' = FileWith(proc["connect"].text)

\* C4: when a disconnect completes, no vault is connected, the Map is empty,
\* the lastUpdateTime that the staleness checks of the update command and of
\* the pick command read is 0, and the cache file holds no records and
\* timestamp 0.
C4_DisconnectResetsEverything ==
    [][DisconnectCompletes
       => /\ ~connectedVault'
          /\ notesCache' = <<>>
          /\ cmdLastUpdateTime'["update"] = 0
          /\ cmdLastUpdateTime'["pick"] = 0
          /\ JSONParse(cacheFile'.text) = [ok |-> TRUE, notes |-> <<>>, timestamp |-> 0]]_vars

NoneModifiedAfter(t) == \A f \in NoteFiles : mtime[f] <= t

\* C5: when start-up has ended with a cache file that was read and parsed,
\* no note modified after the cached timestamp, no command issued and no I/O
\* failure, the Map holds the cached records, lastUpdateTime is the cached
\* timestamp, and no refresh was run.
C5_StartupUsesCache ==
    (/\ proc["activate"].pc = "done"
     /\ cacheLoaded.returned /\ cacheLoaded.cacheLoaded
     /\ NoneModifiedAfter(cacheLoaded.lastUpdateTime)
     /\ cmds = 0 /\ faults = 0)
    => /\ notesCache = cacheLoaded.notesCache
       /\ lastUpdateTime = cacheLoaded.lastUpdateTime
       /\ proc["activate"].result = "none"

\* The saved index is the one loaded, and so is the timestamp.
RoundTrip ==
    /\ cacheLoaded.cacheLoaded
    /\ cacheLoaded.notesCache = notesCache
    /\ cacheLoaded.lastUpdateTime = lastUpdateTime

\* C7: saveCache and then loadCache: loadCache returns cacheLoaded = true, a
\* Map with the saved keys in the saved order and the saved fullPath, aliases
\* and uri under each, and the saved timestamp.
C7_SaveThenLoadIsIdentity == cacheLoaded.returned => RoundTrip

\* C7 witness: two records, one without aliases and one with two, and a
\* timestamp other than 0, have been saved and loaded.
C7_Witness ==
    /\ cacheLoaded.returned
    /\ Len(notesCache) = 2
    /\ notesCache[1].value.aliases = <<>>
    /\ Len(notesCache[2].value.aliases) = 2
    /\ lastUpdateTime = MaxClock

\* loadCache takes a step, and the step in which it returns.
LoadStep == proc["activate"].pc \in {"access", "read"}
            /\ proc'["activate"].pc # proc["activate"].pc
LoadReturns == ~cacheLoaded.returned /\ cacheLoaded'.returned
Unusable(file) == ~file.exists \/ ~JSONParse(file.text).ok

\* C8 as stated: loadCache does not throw (start-up goes on), and with the
\* cache file missing or not JSON it returns cacheLoaded = false and an
\* index without records.
C8_UnusableCacheLoadsEmptyIndex ==
    [][LoadStep
       => /\ proc'["activate"].pc \in {"read", "stale"}
          /\ (LoadReturns /\ Unusable(cacheFile))
             => (~cacheLoaded'.cacheLoaded /\ cacheLoaded'.notesCache = <<>>)]_vars

\* C8 amended: loadCache does not throw, and with the cache file missing or
\* not JSON it returns cacheLoaded = false together with the Map and the
\* timestamp it was passed, as they are when it returns.
C8_UnusableCacheReturnsWhatWasPassed ==
    [][LoadStep
       => /\ proc'["activate"].pc \in {"read", "stale"}
          /\ (LoadReturns /\ Unusable(cacheFile))
             => /\ ~cacheLoaded'.cacheLoaded
                /\ cacheLoaded'.notesCache = notesCache
                /\ cacheLoaded'.lastUpdateTime = lastUpdateTime]_vars

\* C8 witness: loadCache has returned cacheLoaded = false on a file that is
\* not JSON, with the Map that a command filled while it was suspended.
C8_Witness ==
    /\ cacheLoaded.returned /\ ~cacheLoaded.cacheLoaded
    /\ cacheFile = FileWith(GarbageText)
    /\ Len(cacheLoaded.notesCache) = 2

\* C9: when start-up has ended after loadCache found the cache file missing
\* or not JSON, with no command issued and no I/O failure, a refresh has run
\* and the Map is the complete index of the vault under the restored filter.
C9_UnusableCacheIsRebuilt ==
    (/\ proc["activate"].pc = "done"
     /\ cacheLoaded.returned /\ ~cacheLoaded.cacheLoaded
     /\ cmds = 0 /\ faults = 0)
    => /\ proc["activate"].result = "returned"
       /\ notesCache = BuildIndex(selectedDirectories)

\* The first path component of a note relative to the vault, the empty
\* string for a note directly in the root.
RootSegment(vaultPath, fullPath) ==
    LET parts == Split(PathRelative(vaultPath, fullPath), Sep)
    IN IF Len(parts) = 1 THEN <<>> ELSE parts[1]

\* The inclusion rule as stated.
InclusionRule(items, vaultPath, fullPath) ==
    \/ AllDirs \in items
    \/ RootSegment(vaultPath, fullPath) = <<>> /\ NotesInRoot \in items
    \/ RootSegment(vaultPath, fullPath) # <<>> /\ RootSegment(vaultPath, fullPath) \in items

\* C10: every note the scan has visited is among the notes returned exactly
\* when the filter has "All", or the note is in the root and the filter has
\* "Notes In Root", or the filter has the name of the note's top directory.
C10_InclusionRule ==
    \A i \in 1..(proc["update"].idx - 1) :
        (proc["update"].pc = "scan" /\ i <= Len(FilterPlan) /\ FilterPlan[i].op = "visit")
        => ((\E j \in 1..Len(proc["update"].notes) :
                 proc["update"].notes[j].path = FilterPlan[i].path)
            <=> InclusionRule(proc["update"].selectedDirectories.items, VaultPath,
                              FilterPlan[i].path))

\* The match on the note in the vault's root through its declared alias.
RootAliasMatch ==
    [type |-> "alias", path |-> RootNoteName, fullPath |-> RootNotePath,
     matchedAlias |-> RootNoteAlias, uri |-> createObsidianUri(VaultPath, RootNoteName)]

\* C11: when a refresh under the filter {"Notes In Root"} installs its build,
\* the alias declared by the note in the vault's root resolves to that note
\* with kind alias and matchedAlias as declared, also for a word that differs
\* in letter case only, and the note's title resolves to it with kind filename.
C11_RootAliasesResolve ==
    [][\A p \in Procs :
          (InstallStep(p) /\ proc[p].selectedDirectories = SetOf({NotesInRoot}))
          => /\ findNoteMatch(RootNoteAlias, notesCache', CASE_INSENSITIVE) = RootAliasMatch
             /\ findNoteMatch(<<"w", "A">>, notesCache', CASE_INSENSITIVE) = RootAliasMatch
             /\ findNoteMatch(Basename(RootNoteName, MdExt), notesCache', CASE_INSENSITIVE)
                    = [RootAliasMatch EXCEPT !.type = "filename", !.matchedAlias = <<>>]]_vars

\* The note files of a tree: the regular files with extension .md of which
\* neither the name nor the name of a directory above it, below the vault's
\* root, starts with a dot.
NotePaths(tree, vaultPath) ==
    UNION {{PathJoin(tree[d].path, tree[d].entries[e].name) :
               e \in {x \in 1..Len(tree[d].entries) :
                   /\ tree[d].entries[x].isFile
                   /\ EndsWith(tree[d].entries[x].name, MdExt)
                   /\ LET parts == Split(PathRelative(vaultPath,
                                       PathJoin(tree[d].path, tree[d].entries[x].name)), Sep)
                      IN \A i \in 1..Len(parts) : parts[i][1] # "."}} :
           d \in 1..Len(tree)}

\* C12: isVaultModified returns true exactly when a readdir or a stat fails
\* or some note file of the whole tree is modified later than the last-build
\* time passed; for a vault without note files and no failure it returns
\* false for every last-build time.
C12_StaleIffLaterNoteOrFailure ==
    (call.fn = "isVaultModified" /\ call.done)
    => LET a == call.args
       IN /\ call.result <=>
                \/ a.failAt # 0
                \/ \E f \in NotePaths(a.tree, VaultPath) : a.mtimes[f] > a.lastUpdateTime
          /\ (NotePaths(a.tree, VaultPath) = {} /\ a.failAt = 0) => ~call.result

\* C12 witness: with last-build time 1 and only the note in the vault's root
\* modified later, isVaultModified has returned true.
C12_Witness ==
    /\ call.fn = "isVaultModified" /\ call.done /\ call.result
    /\ call.args.failAt = 0 /\ call.args.lastUpdateTime = 1
    /\ call.args.tree = VaultTree
    /\ call.args.mtimes[RootNotePath] = 2
    /\ call.args.mtimes[DocsNotePath] = 0 /\ call.args.mtimes[AliasNotePath] = 1

\* The time of the last successful refresh, as its caller recorded it: the
\* latest of the copies of lastUpdateTime; 0 when there was none.
LastBuild ==
    Max(Max(lastUpdateTime, quickPick.lastUpdateTime),
        Max(cmdLastUpdateTime["update"],
            Max(cmdLastUpdateTime["connect"], cmdLastUpdateTime["pick"])))

\* C13: when a staleness check (of start-up, of the update command, of the
\* directory picker) made by a handler that ran alone, so after the refresh
\* had returned, returns without an I/O failure, it reports not stale (no refresh is started) if no note is
\* modified later than that refresh, and stale if it has seen a note modified
\* later than that refresh.
C13_FreshAfterRefreshStaleAfterTouch ==
    [][\A p \in Procs :
          (proc[p].pc = "stale" /\ proc'[p].pc # "stale" /\ faults' = faults
           /\ proc[p].alone /\ LastBuild > 0)
          => LET op == Plan[proc[p].idx]
                 seen == IF op.op = "visit"
                         THEN Max(proc[p].latestModification, mtime[op.path])
                         ELSE proc[p].latestModification
             IN /\ NoneModifiedAfter(LastBuild) => proc'[p].pc # "scan"
                /\ seen > LastBuild => proc'[p].pc = "scan"]_vars

\* Case folding when enabled.
Folded(s, caseInsensitive) == IF caseInsensitive THEN ToLowerCase(s) ELSE s

\* A string without its maximal trailing run of characters that are not a
\* letter, a digit, an underscore, a dot or a hyphen.
WithoutTrailingRun(s) ==
    LET allowed == Range(UpperChars) \cup Range(LowerChars) \cup Range(DigitChars)
                   \cup {"_", ".", "-"}
        ends == {k \in 0..Len(s) : k = 0 \/ s[k] \in allowed}
    IN SubSeq(s, 1, CHOOSE k \in ends : \A j \in ends : j <= k)

\* How a title or an alias is compared with the word in the raw pass and in
\* the normalized pass.
Compared(s, caseInsensitive, normalized) ==
    Folded(IF normalized THEN WithoutTrailingRun(s) ELSE s, caseInsensitive)

\* The title of record i of the index m, and the aliases of record i that
\* equal the word w as compared in the pass.
TitleOf(m, i) == Basename(m[i].key, MdExt)
TitleHit(m, i, w, ci, n) == Compared(TitleOf(m, i), ci, n) = Folded(w, ci)
AliasHits(m, i, w, ci, n) ==
    {j \in 1..Len(m[i].value.aliases) :
        Compared(m[i].value.aliases[j], ci, n) = Folded(w, ci)}
RecordHits(m, w, ci, n) ==
    {i \in 1..Len(m) : TitleHit(m, i, w, ci, n) \/ AliasHits(m, i, w, ci, n) # {}}
Least(S) == CHOOSE i \in S : \A j \in S : i <= j

\* C14: findExactMatch returns null when no record has a matching field;
\* otherwise the match of the first record, in the index's order, that has
\* one: tagged filename when its title matches, and otherwise tagged alias
\* with matchedAlias the first of its aliases, as stored, that matches.
C14_FirstRecordTitleBeforeAliases ==
    (call.fn = "findExactMatch" /\ call.done)
    => LET a == call.args
           m == a.notesCache
           hits == RecordHits(m, a.searchWord, a.caseInsensitive, a.applyNormalization)
       IN IF hits = {} THEN call.result = Null
          ELSE LET i == Least(hits)
                   aliases == AliasHits(m, i, a.searchWord, a.caseInsensitive,
                                        a.applyNormalization)
               IN /\ call.result.path = m[i].key
                  /\ call.result.fullPath = m[i].value.fullPath
                  /\ call.result.uri = m[i].value.uri
                  /\ IF TitleHit(m, i, a.searchWord, a.caseInsensitive, a.applyNormalization)
                     THEN call.result.type = "filename"
                     ELSE /\ call.result.type = "alias"
                          /\ call.result.matchedAlias = m[i].value.aliases[Least(aliases)]

\* C14 witness: Bar.md, declaring FOO and foo, comes before Foo.md in the
\* index; "foo" has matched Bar.md by its alias FOO.
C14_Witness ==
    /\ call.fn = "findExactMatch" /\ call.done
    /\ call.args.caseInsensitive /\ ~call.args.applyNormalization
    /\ call.args.searchWord = <<"f", "o", "o">>
    /\ Len(call.args.notesCache) = 2
    /\ call.args.notesCache[1].key = AliasNoteName
    /\ call.args.notesCache[2].key = PathRelative(VaultPath, DocsNotePath)
    /\ call.result.type = "alias"
    /\ call.result.path = AliasNoteName
    /\ call.result.matchedAlias = <<"F", "O", "O">>

\* C15: when some record's title or alias equals the raw word, findNoteMatch
\* returns the raw pass's match of the first such record, whatever an earlier
\* record would match after normalization; the normalized pass gives the
\* result only when the raw pass found nothing.
C15_RawPassWins ==
    (call.fn = "findNoteMatch" /\ call.done)
    => LET a == call.args
           m == a.notesCache
           raw == RecordHits(m, a.word, a.caseInsensitive, FALSE)
       IN IF raw # {}
          THEN /\ call.result.path = m[Least(raw)].key
               /\ call.result = findExactMatch(a.word, a.caseInsensitive, FALSE, m)
          ELSE call.result = findExactMatch(normalizeForComparison(a.word, a.caseInsensitive),
                                            a.caseInsensitive, TRUE, m)

\* C15 witness: Foo.md comes first and matches "foo!" only after
\* normalization; W.md, declaring foo!, comes second and has been returned.
C15_Witness ==
    /\ call.fn = "findNoteMatch" /\ call.done
    /\ call.args.word = <<"f", "o", "o", "!">>
    /\ Len(call.args.notesCache) = 2
    /\ call.args.notesCache[1].key = PathRelative(VaultPath, DocsNotePath)
    /\ call.args.notesCache[2].key = RootNoteName
    /\ call.result.type = "alias"
    /\ call.result.path = RootNoteName
    /\ call.result.matchedAlias = <<"f", "o", "o", "!">>

\* The word of the call without its last character, and what that resolves to.
Front(w) == SubSeq(w, 1, Len(w) - 1)
FrontIsTitle ==
    LET a == call.args
        base == findNoteMatch(Front(a.word), a.notesCache, a.caseInsensitive)
    IN /\ base.type = "filename"
       /\ ToLowerCase(Basename(base.path, MdExt)) = ToLowerCase(Front(a.word))

\* C16 as stated: in case-insensitive mode a word that is a title followed by
\* a period or by a closing bracket resolves to what the title resolves to, a
\* filename match.
C16_TrailingPeriodOrBracketResolves ==
    (/\ call.fn = "findNoteMatch" /\ call.done /\ call.args.caseInsensitive
     /\ call.args.word[Len(call.args.word)] \in {".", ")"}
     /\ FrontIsTitle)
    => call.result = findNoteMatch(Front(call.args.word), call.args.notesCache, TRUE)

\* C16 amended: in case-insensitive mode, for a word that is a title followed
\* by a closing bracket the normalized pass returns the first record, in the
\* index's order, of which the title or an alias equals the title once both
\* are without their trailing run: a filename match when it is that record's
\* title. Followed by a period the word finds nothing (no title or alias of
\* the indexes ends with a period): the period is not removed.
C16_TrailingBracketResolves ==
    (/\ call.fn = "findNoteMatch" /\ call.done /\ call.args.caseInsensitive
     /\ \E i \in 1..Len(call.args.notesCache) :
           ToLowerCase(TitleOf(call.args.notesCache, i)) = ToLowerCase(Front(call.args.word)))
    => LET m == call.args.notesCache
           last == call.args.word[Len(call.args.word)]
           hits == RecordHits(m, Front(call.args.word), TRUE, TRUE)
       IN /\ last = ")"
             => /\ call.result.path = m[Least(hits)].key
                /\ TitleHit(m, Least(hits), Front(call.args.word), TRUE, TRUE)
                   => call.result.type = "filename"
          /\ last = "." => call.result = Null

\* C16 witness: "foo)" has resolved to Foo.md by its title.
C16_Witness ==
    /\ call.fn = "findNoteMatch" /\ call.done /\ call.args.caseInsensitive
    /\ call.args.word = <<"f", "o", "o", ")">>
    /\ call.result.type = "filename"
    /\ call.result.path = PathRelative(VaultPath, DocsNotePath)

\* C17: findNoteMatch returns null exactly when no title and no alias of the
\* index equals the word as it is (case-folded when enabled) and none equals
\* it when both sides are without their trailing run (and case-folded when
\* enabled).
C17_NullIffNoFieldEquals ==
    (call.fn = "findNoteMatch" /\ call.done)
    => LET a == call.args
       IN (call.result = Null)
          <=> /\ RecordHits(a.notesCache, a.word, a.caseInsensitive, FALSE) = {}
              /\ RecordHits(a.notesCache, WithoutTrailingRun(a.word),
                            a.caseInsensitive, TRUE) = {}

\* C17 witness: "xfoo" has found nothing in an index that holds Foo.md and
\* the alias foo.
C17_Witness ==
    /\ call.fn = "findNoteMatch" /\ call.done /\ call.args.caseInsensitive
    /\ call.args.word = <<"x", "f", "o", "o">>
    /\ Len(call.args.notesCache) = 2
    /\ call.args.notesCache[1].key = DocsNoteName
    /\ call.result = Null

\* C18: a scan that has completed has called back exactly once for every
\* note file of the tree and for nothing else, and has listed no directory
\* that is hidden or below a hidden directory.
C18_VisitsExactlyTheNotes ==
    (call.fn = "scanVaultDirectory" /\ call.done)
    => LET plan == call.result
           visits(f) == {i \in 1..Len(plan) : plan[i] = [op |-> "visit", path |-> f]}
       IN /\ \A f \in NotePaths(call.args.tree, VaultPath) : Cardinality(visits(f)) = 1
          /\ \A i \in 1..Len(plan) :
                /\ plan[i].op = "visit" => plan[i].path \in NotePaths(call.args.tree, VaultPath)
                /\ plan[i].op = "readdir"
                   => LET parts == Split(PathRelative(VaultPath, plan[i].path), Sep)
                      IN \A k \in 1..Len(parts) : parts[k] = <<>> \/ parts[k][1] # "."

\* C18 witness: a tree with every kind of entry has been scanned: W.md,
\* D/Foo.md and D/S/N.md are visited, and the root, D and D/S are listed.
C18_Witness ==
    /\ call.fn = "scanVaultDirectory" /\ call.done
    /\ Len(call.args.tree) = 5
    /\ Len(call.args.tree[1].entries) = 6
    /\ Len(call.args.tree[3].entries) = 3
    /\ Len(call.result) = 6
    /\ {call.result[i].path : i \in {j \in 1..6 : call.result[j].op = "visit"}}
         = {RootNotePath, DocsNotePath, PathJoin(PathJoin(DocsDirPath, <<"S">>), <<"N", ".", "m", "d">>)}

\* C19: when the readdir of a directory or the callback for a note fails
\* during a scan, the scan is over at once with that failure: the scan made by
\* loadVaultNotes makes updateNotesInformation throw to its caller, whose
\* handler ends with the Map as it was, and the scan made by isVaultModified
\* is over and answered by its caller's catch. No later entry of that scan is
\* read.
ScanFails(p) ==
    /\ proc[p].pc \in {"stale", "scan"}
    /\ faults' = faults + 1
    /\ proc'[p] # proc[p]

C19_FailureEndsTheScan ==
    [][\A p \in Procs :
          ScanFails(p)
          => /\ proc[p].pc = "scan"
                => /\ proc'[p].result = "threw"
                   /\ ~Running(proc'[p])
                   /\ notesCache' = notesCache
                   /\ lastUpdateTime' = lastUpdateTime
             /\ proc[p].pc = "stale"
                => /\ proc'[p].pc # "stale"
                   /\ p \in {"activate", "update"}
                      => proc'[p].pc = "scan" /\ proc'[p].idx = 1
                         /\ proc'[p].notes = <<>>]_vars

\* C19 witness: start-up's refresh failed in its scan, with a filter that is
\* a Set: the handler has ended with the failure.
C19_Witness ==
    /\ faults = 1
    /\ selectedDirectories.kind = "Set"
    /\ proc["activate"].pc = "done"
    /\ proc["activate"].result = "threw"

\* The aliases of a content read line by line: none unless the first line is
\* exactly three hyphens and a later line is too; otherwise the values of the
\* item lines that follow the first line "aliases:" between the two, trimmed.
RECURSIVE ItemRun(_)
ItemRun(lines) ==
    IF lines # <<>> /\ StartsWith(Head(lines), ItemPrefix)
    THEN <<Trim(Substring(Head(lines), 4, Len(Head(lines))))>> \o ItemRun(Tail(lines))
    ELSE <<>>

LineAliases(content) ==
    LET lines == Split(content, "\n")
        closing == {j \in 2..Len(lines) : lines[j] = Dashes}
    IN IF lines[1] # Dashes \/ closing = {} THEN <<>>
       ELSE LET block == SubSeq(lines, 2, Least(closing) - 1)
                keys == {k \in 1..Len(block) : block[k] = AliasesKey}
            IN IF keys = {} THEN <<>>
               ELSE ItemRun(SubSeq(block, Least(keys) + 1, Len(block)))

\* C20: extractAliases returns the aliases of the content read line by line:
\* the empty list unless the first line is exactly three hyphens and a second
\* such line follows, and otherwise the trimmed values of the item lines right
\* after the line "aliases:" of the block, in order.
C20_AliasesOfTheDelimitedBlock ==
    (call.fn = "extractAliases" /\ call.done)
    => call.result = LineAliases(call.args.content)

\* The refresh that "Pick Directories" makes follows the refresh of start-up:
\* that one has returned, the pick command is the only command issued, no note
\* was edited and the filter is the one start-up used.
SecondBuild ==
    /\ proc["activate"].pc = "done" /\ proc["activate"].result = "returned"
    /\ cmds = 1 /\ clock = 1
    /\ proc["pick"].pc = "scan" /\ proc["pick"].alone
    /\ proc["pick"].selectedDirectories = selectedDirectories

\* C21: when the second of two successive refreshes of the unchanged vault
\* under the same filter installs, the Map holds the records it held after
\* the first: the same relative paths, aliases and URIs.
C21_RebuildInstallsTheSameRecords ==
    [][(SecondBuild /\ InstallStep("pick")) => notesCache' = notesCache]_vars

\* C21 witness: start-up has built the index of D's two notes, and the pick
\* command, issued after it, has built it again.
C21_Witness ==
    /\ proc["activate"].pc = "done" /\ proc["activate"].result = "returned"
    /\ cmds = 1 /\ clock = 1
    /\ proc["pick"].pc = "mkdir" /\ proc["pick"].alone
    /\ proc["pick"].selectedDirectories = selectedDirectories
    /\ notesCache = BuildIndex(SetOf({DocsDirName}))
    /\ Len(notesCache) = 2

\* The relative paths of the notes that pass `filter`.
PassingKeys(filter) ==
    {PathRelative(VaultPath, f) : f \in {g \in NoteFiles : IncludesNote(filter, VaultPath, g)}}

C23_NoVaultOrEmptySelectionIsRejected ==
    (/\ call.fn = "updateNotesInformation" /\ call.done
     /\ call.args.vaultPath = <<>> \/ call.args.selectedDirectories.items = {})
    => /\ call.result.scans = <<>>
       /\ call.result.shown \in {"warning", "error"}
       /\ call.result.notesCache = call.args.notesCache
       /\ call.result.lastUpdateTime = call.args.lastUpdateTime
       /\ call.result.cacheFile = call.args.cacheFile

\* C24: a refresh that runs while another handler does changes the Map in one
\* step only, its install, and that step leaves the complete index of its own
\* scan; every other step it takes, to its return, leaves the Map as the last
\* install left it.
C24_LastInstallWinsWhole ==
    [][\A p \in Procs :
          (proc[p].pc \in RefreshPcs /\ ~proc[p].alone /\ proc'[p] # proc[p])
          => IF InstallStep(p)
             THEN notesCache' = BuildIndex(proc[p].selectedDirectories)
             ELSE notesCache' = notesCache]_vars

\* C24 witness: the refresh of start-up, under D, and the refresh of the
\* accept handler, under "Notes In Root", have both installed and neither has
\* returned; the Map is the whole index of one of them: the empty one.
C24_Witness ==
    /\ proc["activate"].pc \in {"mkdir", "write"}
    /\ proc["accept"].pc \in {"mkdir", "write"}
    /\ proc["activate"].selectedDirectories = SetOf({DocsDirName})
    /\ proc["accept"].selectedDirectories = SetOf({NotesInRoot})
    /\ notesCache = <<>>

C26_OnlyAcceptChangesTheFilter ==
    [][/\ selectedDirectories' = selectedDirectories
       /\ savedDirectories' # savedDirectories
          => /\ quickPick.open /\ quickPick.selectedItems # {}
             /\ proc["accept"].pc = "idle" /\ proc'["accept"].pc = "kv"
             /\ savedDirectories' = Saved(quickPick.selectedDirectories.items)
             /\ quickPick.selectedDirectories.items # {}]_vars

\* C26 witness: start-up ran under the default filter; the user has accepted
\* "Notes In Root" and D, which is persisted, and the accept handler's refresh
\* has returned and its save is being written; the module's filter is as it was.
C26_Witness ==
    /\ selectedDirectories = SetOf({NotesInRoot})
    /\ savedDirectories = Saved({NotesInRoot, DocsDirName})
    /\ proc["accept"].pc = "write2"
    /\ proc["activate"].result = "returned"

\* A call of updateNotesInformation with a vault path and force = false has returned
\* or thrown.
NonForcedCall ==
    /\ call.fn = "updateNotesInformation" /\ call.done
    /\ call.args.vaultPath # <<>> /\ ~call.args.force

SomeNoteModified ==
    \E f \in NoteFiles : call.args.mtimes[f] > call.args.lastUpdateTime

Rescanned == \E i \in 1..Len(call.result.scans) : call.result.scans[i] = "load"

LeftUnchanged ==
    /\ call.result.notesCache = call.args.notesCache
    /\ call.result.lastUpdateTime = call.args.lastUpdateTime
    /\ call.result.cacheFile = call.args.cacheFile

BuildBeforeUpdate ==
    Max(Max(lastUpdateTime, quickPick.lastUpdateTime),
        Max(cmdLastUpdateTime["connect"], cmdLastUpdateTime["pick"]))

\* The update command ends after its staleness check has sent it into a
\* refresh: it ran alone, no I/O operation has failed, and a note is modified
\* later than the build that was there when the command was issued.
UpdateCommandEnds ==
    /\ proc["update"].pc \in {"scan", "mkdir", "write", "mkdir2", "write2"}
    /\ proc'["update"].pc = "idle"
    /\ proc["update"].alone
    /\ faults' = 0
    /\ connectedVault
    /\ \E f \in NoteFiles : mtime[f] > BuildBeforeUpdate

\* C28: when the update command ends after a note was modified, its refresh
\* has returned, the Map is the index of a fresh build under the persisted
\* selection, or under "Notes In Root" when none is persisted, and the cache
\* file holds that index.
C28_UpdateCommandRebuildsAndPersists ==
    [][UpdateCommandEnds
       => LET filter == SetOf(IF savedDirectories.saved THEN savedDirectories.items
                              ELSE {NotesInRoot})
              cacheData == JSONParse(cacheFile'.text)
          IN /\ proc'["update"].result = "returned"
             /\ notesCache' = BuildIndex(filter)
             /\ cacheFile'.exists /\ cacheData.ok
             /\ MapFrom(<<>>, cacheData.notes) = notesCache']_vars

\* C29: when deactivate has returned, the cache file holds the records of the
\* Map and the module's lastUpdateTime as they were at deactivation.
C29_DeactivateSavesTheCache ==
    [][(proc["activate"].pc = "done" /\ proc'["activate"].pc = "deactivated")
       => LET cacheData == JSONParse(cacheFile'.text)
          IN /\ cacheFile'.exists /\ cacheData.ok
             /\ MapFrom(<<>>, cacheData.notes) = notesCache
             /\ cacheData.timestamp = lastUpdateTime]_vars


\* The lines of a content that make its leading front matter block: none
\* unless the first line is the delimiter; otherwise the lines up to the next
\* delimiter line, or all of them when there is none.
FrontMatterLines(lines) ==
    IF Trim(lines[1]) # Dashes THEN {}
    ELSE LET closing == {j \in 2..Len(lines) : Trim(lines[j]) = Dashes}
         IN IF closing = {} THEN 1..Len(lines)
            ELSE 1..(CHOOSE j \in closing : \A k \in closing : j <= k)

\* The lines outside the leading front matter block that precede the first
\* such line starting with "# ", in order, joined and with trailing
\* whitespace removed.
BodyBeforeHeader(content) ==
    LET lines == Split(content, "\n")
        body == (1..Len(lines)) \ FrontMatterLines(lines)
        headers == {i \in body : StartsWith(lines[i], <<"#", " ">>)}
        kept == {i \in body : \A h \in headers : i < h}
        RECURSIVE pick(_)
        pick(i) == IF i > Len(lines) THEN <<>>
                   ELSE (IF i \in kept THEN <<lines[i]>> ELSE <<>>) \o pick(i + 1)
    IN TrimEnd(JoinLines(pick(1)))

\* C30: getNoteContent returns the lines outside the leading front matter
\* block that precede the first line starting with "# ", in order and with
\* trailing whitespace removed, no line of the front matter, and the empty
\* string when the file cannot be read.
C30_ContentBetweenFrontMatterAndHeader ==
    (call.fn = "getNoteContent" /\ call.done)
    => call.result = IF call.args.readable
                     THEN BodyBeforeHeader(call.args.content)
                     ELSE <<>>


\* C34: whenever no handler is suspended in an await, so no refresh is in
\* flight, the module's lastUpdateTime and the copies that the update command,
\* the pick command and the connect command hold are one and the same value.
C34_TimestampHoldersAgree ==
    (InFlight = 0)
    => \A c \in Commands : cmdLastUpdateTime[c] = lastUpdateTime


\* The cache file holds no records: there is none, or its text parses to an
\* empty notes object.
CacheHoldsNoRecords ==
    cacheFile.exists => LET cacheData == JSONParse(cacheFile.text)
                        IN cacheData.ok /\ cacheData.notes = <<>>

\* C32: whenever no vault is connected, the disconnect command is not in the
\* middle of clearing and no I/O operation has failed, the Map is empty and
\* the cache file holds no records, also when the disconnect was issued while
\* a refresh was suspended in its scan.
C32_DisconnectedMeansEmpty ==
    (~connectedVault /\ ~Running(proc["connect"]) /\ faults = 0)
    => (notesCache = <<>> /\ CacheHoldsNoRecords)


\* C33: once a refresh has installed its index and taken its timestamp,
\* every note it has read either still has the modification time it had when
\* it was read, so the index holds its current content, or is modified later
\* than that timestamp, so a staleness check against that timestamp reports
\* the vault stale.
C33_NoModificationIsLost ==
    \A p \in Procs :
        proc[p].pc \in {"mkdir", "write"}
        => \A f \in NoteFiles :
              proc[p].readAt[f] # 0
              => \/ proc[p].readAt[f] = mtime[f]
                 \/ mtime[f] > proc[p].newLastUpdateTime


\* A handler is suspended inside saveCache.
SaveInFlight == \E p \in Procs : proc[p].pc \in {"mkdir", "write", "mkdir2", "write2"}

\* C35: whenever no save is in flight and no I/O operation has failed, the
\* records and the timestamp in the cache file are the index and the
\* timestamp of one build in `builds`, or no records and 0.
C35_CacheComesFromOneBuild ==
    (~SaveInFlight /\ faults = 0 /\ cacheFile.exists)
    => LET cacheData == JSONParse(cacheFile.text)
       IN /\ cacheData.ok
          /\ [notesCache |-> MapFrom(<<>>, cacheData.notes),
              lastUpdateTime |-> cacheData.timestamp]
               \in builds \cup {[notesCache |-> <<>>, lastUpdateTime |-> 0]}


\* The components of a note's path below the vault.
PathBelowVault(note) == Split(PathRelative(VaultPath, note.path), Sep)

\* C38: under a selection made of top-level directory names only, every note
\* that loadVaultNotes returns lies in a top-level directory whose name is in
\* the selection, whatever the directories are named.
C38_OnlyNotesOfSelectedDirectories ==
    (call.fn = "loadVaultNotes" /\ call.done)
    => \A i \in 1..Len(call.result) :
          /\ Len(PathBelowVault(call.result[i])) > 1
          /\ PathBelowVault(call.result[i])[1] \in call.args.selectedDirectories.items

OneRunWhoeverCalls ==
    /\ Cardinality(timers) <= 1
    /\ (runs.armed /\ ~Deactivated) => runs.byTimer + runs.byRefresh <= 1
    /\ Deactivated => (timers = {} /\ runs.late = {})

\* The filter values there are: the Sets of the names a picker offers, and "All".
Filters ==
    {SetOf(S) : S \in SUBSET ({NotesInRoot, AllDirs}
                              \cup getRootDirectories(VaultTree, VaultPath))}

\* C36: every index installed is what one scan of the whole vault under one
\* single filter value yields.
C36_IndexComesFromOneFilter ==
    \A b \in builds : \E F \in Filters : b.notesCache = BuildIndex(F)

\* The QuickPick is closed by the user, and its selection was never accepted.
DismissedUnaccepted ==
    /\ quickPick.open /\ ~quickPick'.open
    /\ proc["accept"].pc = "idle" /\ ~openedWith.accepted

\* C37: when the picker is dismissed without having been accepted, the
\* module's selectedDirectories is what it was before the picker was asked for.
C37_DismissKeepsTheFilter ==
    [][DismissedUnaccepted => selectedDirectories' = openedWith.selectedDirectories]_vars
====
